---- MODULE Spec2Model ----
(***************************************************************************)
(* The ReAct RAG agent of server/routers.ts: the keyword-driven agent loop *)
(* (ReactRagAgent.processQuery), its two tools (retrieveDocuments and      *)
(* analyzeText), the step log and the document map, for the one agent      *)
(* object that getRagAgent shares between all requests.                    *)
(*                                                                         *)
(* Text is modelled as a sequence of one-character strings, so that the    *)
(* case folding, substring tests, truncation, splitting and joining of the *)
(* code are computed and not assumed.                                      *)
(***************************************************************************)
EXTENDS Integers, Sequences, FiniteSets, TLC

----------------------------------------------------------------------------
\* JavaScript string primitives used by the agent.

UpperLetters ==
    <<"A","B","C","D","E","F","G","H","I","J","K","L","M",
      "N","O","P","Q","R","S","T","U","V","W","X","Y","Z">>

LowerLetters ==
    <<"a","b","c","d","e","f","g","h","i","j","k","l","m",
      "n","o","p","q","r","s","t","u","v","w","x","y","z">>

\* The lower-case letter of each upper-case letter.
LowerOf ==
    [c \in {UpperLetters[i] : i \in 1..Len(UpperLetters)} |->
        LowerLetters[CHOOSE i \in 1..Len(UpperLetters) : UpperLetters[i] = c]]

\* One character of String.prototype.toLowerCase.
LowerChar(c) ==
    IF c \in DOMAIN LowerOf THEN LowerOf[c] ELSE c

\* String.prototype.toLowerCase.
toLowerCase(s) ==
    [i \in 1..Len(s) |-> LowerChar(s[i])]

\* String.prototype.includes: t occurs in s as a contiguous substring (the
\* empty string occurs in every string).
includes(s, t) ==
    \E i \in 0..(Len(s) - Len(t)) : SubSeq(s, i + 1, i + Len(t)) = t

\* String.prototype.substring(start, end) for 0 <= start <= end.
substring(s, start, end) ==
    SubSeq(s, start + 1, IF end < Len(s) THEN end ELSE Len(s))

\* Array.prototype.join.
RECURSIVE join(_, _)
join(parts, sep) ==
    IF Len(parts) = 0 THEN <<>>
    ELSE IF Len(parts) = 1 THEN parts[1]
    ELSE parts[1] \o sep \o join(Tail(parts), sep)

\* Array.prototype.slice(0, n).
slice(parts, n) ==
    SubSeq(parts, 1, IF n < Len(parts) THEN n ELSE Len(parts))

\* The characters the pattern class \s and String.prototype.trim treat as
\* white space, among the characters of the model's texts.
WhitespaceChars == {" ", "\t", "\n", "\r"}

\* s.trim() is a non-empty string.
isNonBlank(s) ==
    \E i \in 1..Len(s) : s[i] \notin WhitespaceChars

\* String.prototype.split on a set of separator characters. With mergeRuns
\* a maximal run of separators is one separator (the pattern /[.!?]+/),
\* without it every separator character splits (split(" ")).
RECURSIVE splitFrom(_, _, _, _, _, _, _)
splitFrom(s, seps, mergeRuns, i, cur, out, inRun) ==
    IF i > Len(s) THEN Append(out, cur)
    ELSE IF s[i] \in seps
         THEN IF mergeRuns /\ inRun
              THEN splitFrom(s, seps, mergeRuns, i + 1, cur, out, TRUE)
              ELSE splitFrom(s, seps, mergeRuns, i + 1, <<>>, Append(out, cur), TRUE)
         ELSE splitFrom(s, seps, mergeRuns, i + 1, Append(cur, s[i]), out, FALSE)

split(s, seps, mergeRuns) ==
    splitFrom(s, seps, mergeRuns, 1, <<>>, <<>>, FALSE)

----------------------------------------------------------------------------
\* The text literals of the code.

\* The literals of processQuery's keyword tests (routers.ts 271-306) and of the
\* search-phrase pattern (routers.ts 288).
KwFinalAnswer ==
    <<"f","i","n","a","l"," ","a","n","s","w","e","r">>

KwAnswerColon ==
    <<"a","n","s","w","e","r",":">>

KwRetrieve ==
    <<"r","e","t","r","i","e","v","e">>

KwSearch ==
    <<"s","e","a","r","c","h">>

KwFind ==
    <<"f","i","n","d">>

KwAnalyze ==
    <<"a","n","a","l","y","z","e">>

KwExtract ==
    <<"e","x","t","r","a","c","t">>

KwFor ==
    <<"f","o","r">>

KwAbout ==
    <<"a","b","o","u","t">>

KwOn ==
    <<"o","n">>

\* The literals of retrieveDocuments (routers.ts 201-207).
NoDocsSentinel ==
    <<"N","o"," ","r","e","l","e","v","a","n","t"," ","d","o","c","u","m","e","n","t","s"," ",
    "f","o","u","n","d",".">>

ExcerptDelimiter ==
    <<"\n","\n","-","-","-","\n","\n">>

Ellipsis ==
    <<".",".",".">>

\* The literals of analyzeText (routers.ts 219-220).
KeyFindingsPrefix ==
    <<"K","e","y"," ","f","i","n","d","i","n","g","s",":","\n">>

NoFindingsSentinel ==
    <<"N","o"," ","s","p","e","c","i","f","i","c"," ","f","i","n","d","i","n","g","s"," ","r",
    "e","l","a","t","e","d"," ","t","o"," ","t","h","e"," ","q","u","e","r","y",".">>

\* The literals of processQuery (routers.ts 234-340).
FallbackAnswer ==
    <<"U","n","a","b","l","e"," ","t","o"," ","g","e","n","e","r","a","t","e"," ","a"," ","c",
    "o","m","p","l","e","t","e"," ","a","n","s","w","e","r","."," ","P","l","e","a","s","e"," ",
    "t","r","y"," ","a","g","a","i","n",".">>

AnalyzingQueryPrefix ==
    <<"A","n","a","l","y","z","i","n","g"," ","q","u","e","r","y",":"," ","\"">>

RetrievingPrefix ==
    <<"R","e","t","r","i","e","v","i","n","g"," ","d","o","c","u","m","e","n","t","s"," ","f",
    "o","r",":"," ","\"">>

AnalyzingAction ==
    <<"A","n","a","l","y","z","i","n","g"," ","r","e","t","r","i","e","v","e","d"," ","d","o",
    "c","u","m","e","n","t","s">>

ErrorPrefix ==
    <<"E","r","r","o","r"," ","d","u","r","i","n","g"," ","p","r","o","c","e","s","s","i","n",
    "g",":"," ">>

UnknownError ==
    <<"U","n","k","n","o","w","n"," ","e","r","r","o","r">>

RetrievalResultPrefix ==
    <<"T","o","o","l"," ","r","e","s","u","l","t"," ","f","r","o","m"," ","d","o","c","u","m",
    "e","n","t"," ","r","e","t","r","i","e","v","a","l",":","\n">>

RetrievalResultSuffix ==
    <<"\n","\n","C","o","n","t","i","n","u","e"," ","y","o","u","r"," ","a","n","a","l","y","s",
    "i","s",".">>

AnalysisResultPrefix ==
    <<"T","o","o","l"," ","r","e","s","u","l","t"," ","f","r","o","m"," ","a","n","a","l","y",
    "s","i","s",":","\n">>

AnalysisResultSuffix ==
    <<"\n","\n","P","r","o","v","i","d","e"," ","y","o","u","r"," ","f","i","n","a","l"," ","a",
    "n","s","w","e","r"," ","b","a","s","e","d"," ","o","n"," ","t","h","i","s"," ","a","n","a",
    "l","y","s","i","s",".">>

systemPrompt ==
    <<"Y","o","u"," ","a","r","e"," ","a"," ","h","e","l","p","f","u","l"," ","R","e","A","c",
    "t"," ","a","g","e","n","t"," ","t","h","a","t"," ","r","e","a","s","o","n","s"," ","s","t",
    "e","p","-","b","y","-","s","t","e","p"," ","a","n","d"," ","u","s","e","s"," ","t","o","o",
    "l","s"," ","t","o"," ","r","e","t","r","i","e","v","e"," ","a","n","d"," ","a","n","a","l",
    "y","z","e"," ","d","o","c","u","m","e","n","t","s",".","\n","\n","A","v","a","i","l","a",
    "b","l","e"," ","t","o","o","l","s",":","\n","-"," ","r","e","t","r","i","e","v","e","_",
    "d","o","c","u","m","e","n","t","s",":"," ","S","e","a","r","c","h"," ","f","o","r"," ","r",
    "e","l","e","v","a","n","t"," ","d","o","c","u","m","e","n","t","s"," ","b","a","s","e","d",
    " ","o","n"," ","k","e","y","w","o","r","d","s","\n","-"," ","a","n","a","l","y","z","e",
    "_","t","e","x","t",":"," ","E","x","t","r","a","c","t"," ","k","e","y"," ","i","n","f","o",
    "r","m","a","t","i","o","n"," ","f","r","o","m"," ","r","e","t","r","i","e","v","e","d"," ",
    "d","o","c","u","m","e","n","t","s","\n","\n","F","o","l","l","o","w"," ","t","h","i","s",
    " ","p","a","t","t","e","r","n",":","\n","1","."," ","T","h","o","u","g","h","t",":"," ",
    "A","n","a","l","y","z","e"," ","w","h","a","t"," ","y","o","u"," ","n","e","e","d"," ","t",
    "o"," ","d","o","\n","2","."," ","A","c","t","i","o","n",":"," ","D","e","c","i","d","e",
    " ","t","o"," ","r","e","t","r","i","e","v","e"," ","d","o","c","u","m","e","n","t","s"," ",
    "o","r"," ","a","n","a","l","y","z","e"," ","t","e","x","t","\n","3","."," ","O","b","s",
    "e","r","v","a","t","i","o","n",":"," ","P","r","o","c","e","s","s"," ","t","h","e"," ","r",
    "e","s","u","l","t","s","\n","4","."," ","R","e","p","e","a","t"," ","u","n","t","i","l",
    " ","y","o","u"," ","h","a","v","e"," ","e","n","o","u","g","h"," ","i","n","f","o","r","m",
    "a","t","i","o","n","\n","5","."," ","F","i","n","a","l"," ","A","n","s","w","e","r",":",
    " ","P","r","o","v","i","d","e"," ","a"," ","c","o","m","p","r","e","h","e","n","s","i","v",
    "e"," ","r","e","s","p","o","n","s","e","\n","\n","B","e"," ","c","o","n","c","i","s","e",
    " ","a","n","d"," ","c","l","e","a","r"," ","i","n"," ","y","o","u","r"," ","r","e","a","s",
    "o","n","i","n","g","."," ","A","f","t","e","r"," ","g","a","t","h","e","r","i","n","g"," ",
    "i","n","f","o","r","m","a","t","i","o","n",","," ","p","r","o","v","i","d","e"," ","a"," ",
    "f","i","n","a","l"," ","a","n","s","w","e","r",".">>
----------------------------------------------------------------------------
\* The tools.

\* content.substring(0, 500): the length of an excerpt.
ExcerptLimit == 500

\* analyzeText's relevant.slice(0, 3): the number of sentences reported.
MaxFindings == 3

\* One entry of retrieveDocuments' results: `[${title}]\n${content.substring(0, 500)}...`
excerpt(d) ==
    <<"[">> \o d.title \o <<"]", "\n">> \o substring(d.content, 0, ExcerptLimit) \o Ellipsis

\* A test that lower-cases the query and not the document.
docMatchesCaseSensitive(d, queryLower) ==
    \/ includes(d.title, queryLower)
    \/ includes(d.content, queryLower)

\* A test that looks for any one word of the query instead of the whole query.
docMatchesAnyWord(d, queryLower) ==
    \E w \in {word \in {split(queryLower, {" "}, FALSE)[k] :
                            k \in 1..Len(split(queryLower, {" "}, FALSE))} :
                 word # <<>>} :
        docMatchesCaseSensitive([title |-> toLowerCase(d.title),
                                 content |-> toLowerCase(d.content)], w)

\* The test of retrieveDocuments' loop: the title or the content contains
\* the lower-cased query once lower-cased itself.
docMatches(d, queryLower) ==
    \/ includes(toLowerCase(d.title), queryLower)
    \/ includes(toLowerCase(d.content), queryLower)

\* A retrieval that joins its results without looking whether there are any.
retrieveDocumentsNoSentinel(docs, query) ==
    LET hit(d) == docMatches(d, toLowerCase(query))
        found == SelectSeq(docs, hit)
    IN  join([i \in 1..Len(found) |-> excerpt(found[i])], ExcerptDelimiter)

\* ReactRagAgent.retrieveDocuments. A document map is the sequence of its
\* entries [title, content] in the map's iteration (insertion) order.
retrieveDocuments(docs, query) ==
    LET queryLower == toLowerCase(query)
        hit(d) == docMatches(d, queryLower)
        found == SelectSeq(docs, hit)
        results == [i \in 1..Len(found) |-> excerpt(found[i])]
    IN  IF Len(results) > 0
        THEN join(results, ExcerptDelimiter)
        ELSE NoDocsSentinel

\* An analysis that reports the first sentences whatever the query.
analyzeTextUnfiltered(text, query) ==
    LET sentences == SelectSeq(split(text, {".", "!", "?"}, TRUE), isNonBlank)
    IN  IF Len(sentences) > 0
        THEN KeyFindingsPrefix \o join(slice(sentences, MaxFindings), <<"\n">>)
        ELSE NoFindingsSentinel

\* ReactRagAgent.analyzeText.
analyzeText(text, query) ==
    LET sentences == SelectSeq(split(text, {".", "!", "?"}, TRUE), isNonBlank)
        queryWords == split(query, {" "}, FALSE)
        related(s) == \E w \in 1..Len(queryWords) :
                          includes(toLowerCase(s), toLowerCase(queryWords[w]))
        relevant == SelectSeq(sentences, related)
    IN  IF Len(relevant) > 0
        THEN KeyFindingsPrefix \o join(slice(relevant, MaxFindings), <<"\n">>)
        ELSE NoFindingsSentinel

----------------------------------------------------------------------------
\* The search phrase of a retrieval turn: content.match of the pattern
\*   /(?:retrieve|search|find).*?(?:for|about|on)?\s*["\']?([^"\'.\n]+)/i
\* computed as a backtracking matcher computes it. A position is an index
\* into the text, 0 stands for "no match".

\* The characters the capture class [^"\'.\n] excludes.
PhraseStopChars == {"\"", "'", ".", "\n"}

\* The characters the optional class ["\'] matches.
QuoteChars == {"\"", "'"}

\* The characters the pattern's dot does not match.
LineTerminators == {"\n", "\r"}

\* The literal w (lower case) matches s at position i, ignoring case.
literalAt(s, i, w) ==
    /\ i >= 1
    /\ i + Len(w) - 1 <= Len(s)
    /\ toLowerCase(SubSeq(s, i, i + Len(w) - 1)) = w

\* The length matched by (?:retrieve|search|find) at i, 0 when none does.
keywordLen(s, i) ==
    IF literalAt(s, i, KwRetrieve) THEN Len(KwRetrieve)
    ELSE IF literalAt(s, i, KwSearch) THEN Len(KwSearch)
    ELSE IF literalAt(s, i, KwFind) THEN Len(KwFind)
    ELSE 0

\* The length matched by (?:for|about|on) at q, 0 when none does.
prepositionLen(s, q) ==
    IF literalAt(s, q, KwFor) THEN Len(KwFor)
    ELSE IF literalAt(s, q, KwAbout) THEN Len(KwAbout)
    ELSE IF literalAt(s, q, KwOn) THEN Len(KwOn)
    ELSE 0

\* The number of consecutive characters of `chars` (or, with inside FALSE,
\* not of `chars`) in s from position q on.
runLen(s, q, chars, inside) ==
    CHOOSE n \in 0..(Len(s) - q + 1) :
        /\ \A k \in 0..(n - 1) : (s[q + k] \in chars) = inside
        /\ (q + n > Len(s) \/ (s[q + n] \in chars) # inside)

\* Position r holds a character the capture group accepts.
isPhraseChar(s, r) ==
    r >= 1 /\ r <= Len(s) /\ s[r] \notin PhraseStopChars

\* The least and the greatest member of a non-empty set of positions.
leastOf(positions) ==
    CHOOSE i \in positions : \A j \in positions : i <= j

greatestOf(positions) ==
    CHOOSE i \in positions : \A j \in positions : j <= i

\* ["\']?(...) at a: the optional quote is tried before its absence; 0 when
\* the capture group cannot start there.
phraseStartAtQuote(s, a) ==
    IF a <= Len(s) /\ s[a] \in QuoteChars /\ isPhraseChar(s, a + 1)
    THEN a + 1
    ELSE IF isPhraseChar(s, a) THEN a ELSE 0

\* The start reached with the most white space among the counts in `good`.
phraseStartGreedy(s, q, good) ==
    IF good = {} THEN 0 ELSE phraseStartAtQuote(s, q + greatestOf(good))

\* \s*["\']?(...) from q: the greedy \s* gives back one character at a time.
phraseStartAfterSpaces(s, q) ==
    phraseStartGreedy(s, q,
        {j \in 0..runLen(s, q, WhitespaceChars, TRUE) :
            phraseStartAtQuote(s, q + j) # 0})

\* The start reached when (?:for|about|on) matched w characters at q.
phraseStartAfterWord(s, q, w) ==
    IF w > 0 THEN phraseStartAfterSpaces(s, q + w) ELSE 0

\* The first alternative when it leads to a match, else the second.
firstThen(withWord, withoutWord) ==
    IF withWord # 0 THEN withWord ELSE withoutWord

\* (?:for|about|on)?\s*["\']?(...) from q: the optional word is tried before
\* its absence.
phraseStartAt(s, q) ==
    firstThen(phraseStartAfterWord(s, q, prepositionLen(s, q)),
              phraseStartAfterSpaces(s, q))

\* The start reached with the fewest skipped characters among the counts in
\* `good`.
phraseStartLazy(s, p, good) ==
    IF good = {} THEN 0 ELSE phraseStartAt(s, p + leastOf(good))

\* .*?(?:for|about|on)?\s*["\']?(...) from p: the lazy .*? takes as few
\* characters as possible, none of them a line terminator.
phraseStartFrom(s, p) ==
    phraseStartLazy(s, p,
        {k \in 0..runLen(s, p, LineTerminators, FALSE) :
            phraseStartAt(s, p + k) # 0})

\* The start of capture group 1 when the keyword matched w characters at i.
captureStartAfterKeyword(s, i, w) ==
    IF w > 0 THEN phraseStartFrom(s, i + w) ELSE 0

\* The start of capture group 1 for a match attempted at position i.
captureStartAt(s, i) ==
    captureStartAfterKeyword(s, i, keywordLen(s, i))

\* ([^"\'.\n]+) from r: greedy, to the first excluded character.
capturedPhrase(content, r) ==
    SubSeq(content, r, r + runLen(content, r, PhraseStopChars, FALSE) - 1)

\* The leftmost match among the positions where an attempt succeeds.
matchAmong(content, starts) ==
    IF starts = {} THEN [found |-> FALSE, phrase |-> <<>>]
    ELSE [found |-> TRUE,
          phrase |-> capturedPhrase(content,
                                    captureStartAt(content, leastOf(starts)))]

\* match[1] of the leftmost match, or <<>> with found FALSE when
\* content.match returns null.
matchSearchPhrase(content) ==
    matchAmong(content,
               {i \in 1..Len(content) : captureStartAt(content, i) # 0})

\* match ? match[1] : query
matchOrQuery(match, query) ==
    IF match.found THEN match.phrase ELSE query

\* const searchQuery = match ? match[1] : query
searchQueryOf(content, query) ==
    matchOrQuery(matchSearchPhrase(content), query)

----------------------------------------------------------------------------
\* The inputs the behaviours draw from.

\* The queries a caller may submit.
QueryCats ==
    <<"C","a","t","s">>

QueryDogs ==
    <<"d","o","g","s","?">>

\* The replies the language model may give: a final-answer marker in mixed
\* case, a marker together with a tool keyword, a retrieval request with a
\* phrase the pattern extracts, a reply with both kinds of tool keyword and no
\* phrase to extract, an analysis request, a reply with no keyword, and the
\* empty reply.
ReplyFinal ==
    <<"F","i","n","a","l"," ","A","n","s","w","e","r",":"," ","4","2">>

ReplyAnswerSearch ==
    <<"A","N","S","W","E","R",":"," ","s","e","a","r","c","h"," ","c","a","t","s">>

ReplyRetrieve ==
    <<"I"," ","w","i","l","l"," ","R","e","t","r","i","e","v","e"," ","c","a","t","s">>

ReplyExtractSearch ==
    <<"E","x","t","r","a","c","t","."," ","S","e","a","r","c","h",".">>

ReplyAnalyze ==
    <<"A","n","a","l","y","z","e"," ","c","a","t","s","."," ","o","k","!">>

ReplyPlain ==
    <<"I","t"," ","i","s"," ","4","2">>

ReplyEmpty ==
    <<>>

\* The documents a caller may install.
TitlePets ==
    <<"P","e","t","s">>

ContentPets ==
    <<"C","a","t","s"," ","p","u","r","r","."," ","D","o","g","s"," ","b","a","r","k",".">>

TitleCats ==
    <<"c","a","t","s">>

ContentCats ==
    <<"m","e","o","w">>

\* The message of an Error the model call may throw.
TimeoutMessage ==
    <<"t","i","m","e","o","u","t">>

Queries == {QueryCats, QueryDogs}

Replies ==
    {ReplyFinal, ReplyAnswerSearch, ReplyRetrieve, ReplyExtractSearch,
     ReplyAnalyze, ReplyPlain, ReplyEmpty}

\* What model.invoke may throw: an Error with a message, or a value that is
\* not an Error.
ModelErrors ==
    {[isError |-> TRUE, message |-> TimeoutMessage],
     [isError |-> FALSE, message |-> <<>>]}

DocPets == [title |-> TitlePets, content |-> ContentPets]

DocCats == [title |-> TitleCats, content |-> ContentCats]

\* The document maps uploadDocument may hand to updateDocuments.
DocMaps == {<<DocPets>>, <<DocCats, DocPets>>}

\* The workload of a behaviour: how many processQuery calls the clients make,
\* how many model calls the model answers (with a reply or an error; a call
\* beyond that stays outstanding) and how many times the document map is
\* replaced. One workload is a single call that can run through all its
\* turns while the map changes under it, the other is several calls that may
\* overlap; in a third the map is replaced several times around one call of
\* few turns.
MaxAnswers == 6

MaxUpdates == 1

MaxCalls == 2

MaxOverlapAnswers == 2

MaxReplaceUpdates == 2

MaxReplaceAnswers == 1

Workloads ==
    {[calls |-> 1, answers |-> MaxAnswers, updates |-> MaxUpdates],
     [calls |-> MaxCalls, answers |-> MaxOverlapAnswers, updates |-> 0],
     [calls |-> 1, answers |-> MaxReplaceAnswers, updates |-> MaxReplaceUpdates]}

Runs == 1..MaxCalls

----------------------------------------------------------------------------
\* The agent.

VARIABLES
    documents,    \* this.documents: the document map
    state,        \* this.state: steps, currentQuery, documents, isProcessing
    now,          \* the clock Date.now() reads
    pc,           \* per processQuery call: "idle", "awaiting" (suspended on
                  \* model.invoke) or "done" (returned)
    query,        \* per call: the parameter query
    messages,     \* per call: the local messages
    iterations,   \* per call: the local iterations
    finalAnswer,  \* per call: the local finalAnswer
    returned,     \* per call: the value the call resolved with
    budget,       \* what is left of the behaviour's workload
    calls,        \* history, per call: the number of model.invoke calls made
    own,          \* history, per call: the steps this call appended, in order
    turns,        \* history, per call: its turns, each with the reply or the
                  \* error, the tool calls made and the steps appended
    probe         \* a direct call of one tool: its arguments and its output

agentVars ==
    <<documents, state, now, pc, query, messages, iterations, finalAnswer,
      returned, budget, calls, own, turns>>

\* The router and the database behind it.
VARIABLES
    ragAgent,         \* let ragAgent: FALSE for null, TRUE once constructed
    modelConstructs,  \* whether new ChatGoogleGenerativeAI({ apiKey, ... })
                      \* returns (TRUE) or throws (FALSE) with the configured
                      \* key: the library decides
    dbAvailable,      \* whether getDb() returns a database (TRUE) or null
    dbDocuments,      \* the rows of the documents table, in insertion order
    dbRagQueries,     \* the rows of the ragQueries table, in insertion order
    requests          \* per endpoint call: the endpoint, its input, its
                      \* position, its locals and its response

routerVars ==
    <<ragAgent, modelConstructs, dbAvailable, dbDocuments, dbRagQueries, requests>>

\* The visualizer page.
VARIABLES
    displayedSteps,   \* useState steps
    displayedResult,  \* useState result
    loading,          \* useState loading
    currentStepIndex, \* useState currentStepIndex
    uiError,          \* useState error
    timer,            \* whether the auto-advance timeout is pending
    inFlight,         \* the handleProcessQuery calls suspended on
                      \* queriesApi.process
    isHealthy,        \* backendStatus.isHealthy
    queryInput,       \* useState query: the text of the question box
    lastEvent         \* history: the event handled last

visualizerVars ==
    <<displayedSteps, displayedResult, loading, currentStepIndex, uiError, timer,
      inFlight, isHealthy, queryInput, lastEvent>>

vars == <<agentVars, probe, routerVars, visualizerVars>>

\* private maxIterations: number = 5
maxIterations == 5

\* ReactRagAgent.addStep, with t the value Date.now() returns.
addStep(steps, type, content, t) ==
    Append(steps, [type |-> type, content |-> content, timestamp |-> t])

SystemMessage(text) == [role |-> "system", content |-> text]

HumanMessage(text) == [role |-> "human", content |-> text]

\* A while condition that gives up one turn early.
loopContinuesOneLess(n) ==
    n < maxIterations - 1

\* The condition of the while loop.
loopContinues(n) ==
    n < maxIterations

\* A loop that forgets to count its turns.
nextIterationStuck(n) ==
    n

\* iterations++
nextIteration(n) ==
    n + 1

\* A final-answer check that leaves the bound to the while condition.
isFinalTurnIgnoringBound(content, n) ==
    \/ includes(toLowerCase(content), KwFinalAnswer)
    \/ includes(toLowerCase(content), KwAnswerColon)

\* A final-answer check that compares without lower-casing the reply.
isFinalTurnCaseSensitive(content, n) ==
    \/ includes(content, KwFinalAnswer)
    \/ includes(content, KwAnswerColon)
    \/ n >= maxIterations

\* The final-answer check of a turn.
isFinalTurn(content, n) ==
    \/ includes(toLowerCase(content), KwFinalAnswer)
    \/ includes(toLowerCase(content), KwAnswerColon)
    \/ n >= maxIterations

\* The test of the retrieval branch.
wantsRetrieval(content) ==
    \/ includes(toLowerCase(content), KwRetrieve)
    \/ includes(toLowerCase(content), KwSearch)

\* The test of the analysis branch.
wantsAnalysis(content) ==
    \/ includes(toLowerCase(content), KwAnalyze)
    \/ includes(toLowerCase(content), KwExtract)

\* An error description that never reads the message.
errorMessageUnread(err) ==
    UnknownError

\* error instanceof Error ? error.message : "Unknown error"
errorMessage(err) ==
    IF err.isError THEN err.message ELSE UnknownError

\* A return without the fallback text.
resultOfNoFallback(answer) ==
    answer

\* finalAnswer || "Unable to generate a complete answer. Please try again."
resultOf(answer) ==
    IF answer # <<>> THEN answer ELSE FallbackAnswer

\* The outcome of a turn: the steps, messages and finalAnswer it leaves,
\* whether it breaks out of the loop, and the tool calls it made.

\* A final branch whose result step records what the caller will get: the
\* fallback text in place of an empty reply.
finalAnswerBranchLogsFallback(thought, msgs, content, t) ==
    [steps |-> addStep(thought, "result", resultOf(content), t),
     messages |-> msgs, finalAnswer |-> content, stop |-> TRUE, tools |-> <<>>]

\* The branch taken on a final answer or at the bound: the reply becomes the
\* result step and the loop is left.
finalAnswerBranch(thought, msgs, content, t) ==
    [steps |-> addStep(thought, "result", content, t),
     messages |-> msgs, finalAnswer |-> content, stop |-> TRUE, tools |-> <<>>]

\* A retrieval branch that treats the no-match sentinel as a failure: it logs
\* an error and leaves the loop.
retrievalOutcomeSentinelFails(thought, msgs, answer, content, t, searchQuery, result) ==
    IF result = NoDocsSentinel
    THEN [steps |-> addStep(addStep(thought, "action",
                                    RetrievingPrefix \o searchQuery \o <<"\"">>, t),
                            "thought", ErrorPrefix \o result, t),
          messages |-> msgs, finalAnswer |-> answer, stop |-> TRUE,
          tools |-> <<[tool |-> "retrieveDocuments", arg |-> searchQuery,
                       result |-> result]>>]
    ELSE [steps |-> addStep(addStep(thought, "action",
                                    RetrievingPrefix \o searchQuery \o <<"\"">>, t),
                            "observation", result, t),
          messages |-> msgs \o
              <<HumanMessage(content),
                HumanMessage(RetrievalResultPrefix \o result
                             \o RetrievalResultSuffix)>>,
          finalAnswer |-> answer, stop |-> FALSE,
          tools |-> <<[tool |-> "retrieveDocuments", arg |-> searchQuery,
                       result |-> result]>>]

\* The outcome of the retrieval branch once the search phrase and the
\* tool's output are known.
retrievalOutcome(thought, msgs, answer, content, t, searchQuery, result) ==
    [steps |-> addStep(addStep(thought, "action",
                               RetrievingPrefix \o searchQuery \o <<"\"">>, t),
                       "observation", result, t),
     messages |-> msgs \o
         <<HumanMessage(content),
           HumanMessage(RetrievalResultPrefix \o result
                        \o RetrievalResultSuffix)>>,
     finalAnswer |-> answer, stop |-> FALSE,
     tools |-> <<[tool |-> "retrieveDocuments", arg |-> searchQuery,
                  result |-> result]>>]

\* A retrieval that searches the map the agent was constructed with, whatever
\* updateDocuments has installed since.
retrievalWithConstructorMap(docs, thought, msgs, answer, content, t, searchQuery) ==
    retrievalOutcome(thought, msgs, answer, content, t, searchQuery,
                     retrieveDocuments(<<>>, searchQuery))

\* The retrieval branch from the search phrase on.
retrievalWith(docs, thought, msgs, answer, content, t, searchQuery) ==
    retrievalOutcome(thought, msgs, answer, content, t, searchQuery,
                     retrieveDocuments(docs, searchQuery))

\* The retrieval branch.
retrievalBranch(docs, thought, q, msgs, answer, content, t) ==
    retrievalWith(docs, thought, msgs, answer, content, t,
                  searchQueryOf(content, q))

\* An analysis branch that logs the tool's output without announcing the
\* tool call.
analysisOutcomeUnannounced(thought, msgs, answer, content, t, result) ==
    [steps |-> addStep(thought, "observation", result, t),
     messages |-> msgs \o
         <<HumanMessage(content),
           HumanMessage(AnalysisResultPrefix \o result
                        \o AnalysisResultSuffix)>>,
     finalAnswer |-> answer, stop |-> FALSE,
     tools |-> <<[tool |-> "analyzeText", arg |-> content,
                  result |-> result]>>]

\* An analysis branch that hands the model the tool result without the reply
\* it answers.
analysisOutcomeResultOnly(thought, msgs, answer, content, t, result) ==
    [steps |-> addStep(addStep(thought, "action", AnalyzingAction, t),
                       "observation", result, t),
     messages |-> msgs \o
         <<HumanMessage(AnalysisResultPrefix \o result
                        \o AnalysisResultSuffix)>>,
     finalAnswer |-> answer, stop |-> FALSE,
     tools |-> <<[tool |-> "analyzeText", arg |-> content,
                  result |-> result]>>]

\* The outcome of the analysis branch once the tool's output is known.
analysisOutcome(thought, msgs, answer, content, t, result) ==
    [steps |-> addStep(addStep(thought, "action", AnalyzingAction, t),
                       "observation", result, t),
     messages |-> msgs \o
         <<HumanMessage(content),
           HumanMessage(AnalysisResultPrefix \o result
                        \o AnalysisResultSuffix)>>,
     finalAnswer |-> answer, stop |-> FALSE,
     tools |-> <<[tool |-> "analyzeText", arg |-> content,
                  result |-> result]>>]

\* The analysis branch.
analysisBranch(thought, q, msgs, answer, content, t) ==
    analysisOutcome(thought, msgs, answer, content, t, analyzeText(content, q))

\* A no-tool branch without its break.
noToolBranchNoBreak(thought, msgs, content, t) ==
    [steps |-> addStep(thought, "result", content, t),
     messages |-> msgs, finalAnswer |-> content, stop |-> FALSE, tools |-> <<>>]

\* if (!toolExecuted): the reply is treated as the final answer.
noToolBranch(thought, msgs, content, t) ==
    [steps |-> addStep(thought, "result", content, t),
     messages |-> msgs, finalAnswer |-> content, stop |-> TRUE, tools |-> <<>>]

\* A dispatch that tests for the analysis keywords before the retrieval
\* keywords.
replyTurnAnalysisFirst(docs, steps, q, n, msgs, answer, content, t) ==
    IF isFinalTurn(content, n)
    THEN finalAnswerBranch(addStep(steps, "thought", content, t), msgs, content, t)
    ELSE IF wantsAnalysis(content)
    THEN analysisBranch(addStep(steps, "thought", content, t), q, msgs, answer,
                        content, t)
    ELSE IF wantsRetrieval(content)
    THEN retrievalBranch(docs, addStep(steps, "thought", content, t), q, msgs,
                         answer, content, t)
    ELSE noToolBranch(addStep(steps, "thought", content, t), msgs, content, t)

\* The body of the try block from the model's reply on.
replyTurn(docs, steps, q, n, msgs, answer, content, t) ==
    LET thought == addStep(steps, "thought", content, t)
    IN  IF isFinalTurn(content, n)
        THEN finalAnswerBranch(thought, msgs, content, t)
        ELSE IF wantsRetrieval(content)
        THEN retrievalBranch(docs, thought, q, msgs, answer, content, t)
        ELSE IF wantsAnalysis(content)
        THEN analysisBranch(thought, q, msgs, answer, content, t)
        ELSE noToolBranch(thought, msgs, content, t)

\* A catch block without its break: the loop goes on to the next turn.
failTurnRetries(steps, msgs, answer, err, t) ==
    [steps |-> addStep(steps, "thought", ErrorPrefix \o errorMessage(err), t),
     messages |-> msgs, finalAnswer |-> answer, stop |-> FALSE, tools |-> <<>>]

\* The catch block.
failTurn(steps, msgs, answer, err, t) ==
    [steps |-> addStep(steps, "thought", ErrorPrefix \o errorMessage(err), t),
     messages |-> msgs, finalAnswer |-> answer, stop |-> TRUE, tools |-> <<>>]

NoReturn == [result |-> <<>>, steps |-> <<>>]

NoProbe == [tool |-> "none", query |-> <<>>, output |-> <<>>, called |-> FALSE]

NoWorkload == [calls |-> 0, answers |-> 0, updates |-> 0]

\* No processQuery call has been made: the run state is the constructor's.
InitRuns ==
    /\ state = [steps |-> <<>>, currentQuery |-> <<>>, documents |-> <<>>,
                isProcessing |-> FALSE]
    /\ now = 0
    /\ pc = [r \in Runs |-> "idle"]
    /\ query = [r \in Runs |-> <<>>]
    /\ messages = [r \in Runs |-> <<>>]
    /\ iterations = [r \in Runs |-> 0]
    /\ finalAnswer = [r \in Runs |-> <<>>]
    /\ returned = [r \in Runs |-> NoReturn]
    /\ calls = [r \in Runs |-> 0]
    /\ own = [r \in Runs |-> <<>>]
    /\ turns = [r \in Runs |-> <<>>]

\* No endpoint of the router has been called.
NoRequest ==
    [endpoint |-> "none", userId |-> 0, input |-> <<>>, at |-> "idle",
     rows |-> <<>>, run |-> 0,
     response |-> [kind |-> "none", success |-> "none", result |-> <<>>,
                   steps |-> <<>>, error |-> <<>>]]

RouterIdle ==
    /\ ragAgent = FALSE
    /\ modelConstructs = TRUE
    /\ dbAvailable = TRUE
    /\ dbDocuments = <<>>
    /\ dbRagQueries = <<>>
    /\ requests = <<>>

\* The visualizer page as it is first rendered.
VisualizerMounted ==
    /\ displayedSteps = <<>>
    /\ displayedResult = <<>>
    /\ loading = FALSE
    /\ currentStepIndex = 0
    /\ uiError = FALSE
    /\ timer = FALSE
    /\ inFlight = 0
    /\ isHealthy = FALSE
    /\ queryInput = <<>>
    /\ lastEvent = "mount"

\* The agent as getRagAgent constructs it, with an empty document map.
Init ==
    /\ documents = <<>>
    /\ budget \in Workloads
    /\ InitRuns
    /\ probe = NoProbe
    /\ RouterIdle
    /\ VisualizerMounted

\* The end of processQuery, after the loop: isProcessing is cleared and the
\* call resolves with the result and this.state.steps.
Return(r, steps, answer) ==
    /\ state' = [state EXCEPT !.steps = steps, !.isProcessing = FALSE]
    /\ pc' = [pc EXCEPT ![r] = "done"]
    /\ returned' = [returned EXCEPT ![r] =
                        [result |-> resultOf(answer), steps |-> steps]]
    /\ UNCHANGED calls

\* A loop that does not wait for model.invoke: it goes round again and
\* invokes the model a second time before the first call has answered.
LoopDoesNotAwait(r, steps, n, answer) ==
    IF n < maxIterations
    THEN /\ iterations' = [iterations EXCEPT ![r] = n + 1]
         /\ state' = [state EXCEPT !.steps = steps]
         /\ pc' = [pc EXCEPT ![r] = "awaiting"]
         /\ calls' = [calls EXCEPT ![r] = @ + 2]
         /\ UNCHANGED returned
    ELSE /\ iterations' = [iterations EXCEPT ![r] = n]
         /\ state' = [state EXCEPT !.steps = steps, !.isProcessing = FALSE]
         /\ pc' = [pc EXCEPT ![r] = "done"]
         /\ returned' = [returned EXCEPT ![r] =
                             [result |-> IF answer # <<>> THEN answer
                                         ELSE FallbackAnswer,
                              steps |-> steps]]
         /\ UNCHANGED calls

\* The top of the while loop: the next model.invoke, on which the call
\* suspends, or the end of the loop.
Loop(r, steps, n, answer) ==
    IF loopContinues(n)
    THEN /\ iterations' = [iterations EXCEPT ![r] = nextIteration(n)]
         /\ state' = [state EXCEPT !.steps = steps]
         /\ pc' = [pc EXCEPT ![r] = "awaiting"]
         /\ calls' = [calls EXCEPT ![r] = @ + 1]
         /\ UNCHANGED returned
    ELSE /\ iterations' = [iterations EXCEPT ![r] = n]
         /\ Return(r, steps, answer)

\* processQuery up to its first await: the run state is replaced, the first
\* thought is logged, the messages are seeded and the loop is entered. Calls
\* are numbered in the order they are made.
processQuery(r, q) ==
    /\ pc[r] = "idle"
    /\ \A p \in Runs : p < r => pc[p] # "idle"
    /\ LET fresh == [steps |-> <<>>, currentQuery |-> q, documents |-> <<>>,
                     isProcessing |-> TRUE]
           first == addStep(fresh.steps, "thought",
                            AnalyzingQueryPrefix \o q \o <<"\"">>, now)
       IN  /\ query' = [query EXCEPT ![r] = q]
           /\ messages' = [messages EXCEPT ![r] =
                               <<SystemMessage(systemPrompt), HumanMessage(q)>>]
           /\ finalAnswer' = [finalAnswer EXCEPT ![r] = <<>>]
           /\ own' = [own EXCEPT ![r] = <<first[1]>>]
           /\ IF loopContinues(0)
              THEN /\ iterations' = [iterations EXCEPT ![r] = nextIteration(0)]
                   /\ state' = [fresh EXCEPT !.steps = first]
                   /\ pc' = [pc EXCEPT ![r] = "awaiting"]
                   /\ calls' = [calls EXCEPT ![r] = @ + 1]
                   /\ UNCHANGED returned
              ELSE /\ iterations' = [iterations EXCEPT ![r] = 0]
                   /\ state' = [fresh EXCEPT !.steps = first,
                                             !.isProcessing = FALSE]
                   /\ pc' = [pc EXCEPT ![r] = "done"]
                   /\ returned' = [returned EXCEPT ![r] =
                                       [result |-> resultOf(<<>>), steps |-> first]]
                   /\ UNCHANGED calls
    /\ UNCHANGED <<documents, now, turns>>

\* A processQuery call made on the agent directly.
ProcessQuery(r, q) ==
    /\ budget.calls > 0
    /\ budget' = [budget EXCEPT !.calls = @ - 1]
    /\ processQuery(r, q)
    /\ UNCHANGED <<probe, routerVars, visualizerVars>>

\* The rest of a turn once its outcome o is known: up to the next await or
\* to the return.
Resume(r, o, event) ==
    /\ messages' = [messages EXCEPT ![r] = o.messages]
    /\ finalAnswer' = [finalAnswer EXCEPT ![r] = o.finalAnswer]
    /\ own' = [own EXCEPT ![r] =
                   @ \o SubSeq(o.steps, Len(state.steps) + 1, Len(o.steps))]
    /\ turns' = [turns EXCEPT ![r] = Append(@,
                     [event |-> event, iteration |-> iterations[r],
                      tools |-> o.tools,
                      appended |-> SubSeq(o.steps, Len(state.steps) + 1,
                                          Len(o.steps))])]
    /\ IF o.stop
       THEN /\ UNCHANGED iterations
            /\ Return(r, o.steps, o.finalAnswer)
       ELSE Loop(r, o.steps, iterations[r], o.finalAnswer)
    /\ budget' = [budget EXCEPT !.answers = @ - 1]
    /\ now' = now + 1
    /\ UNCHANGED <<documents, query, probe, routerVars, visualizerVars>>

\* The awaited model.invoke resolves with a reply.
ModelReplies(r, content) ==
    /\ pc[r] = "awaiting"
    /\ budget.answers > 0
    /\ Resume(r,
              replyTurn(documents, state.steps, query[r], iterations[r],
                        messages[r], finalAnswer[r], content, now + 1),
              [ok |-> TRUE, value |-> content])

\* The awaited model.invoke rejects.
ModelFails(r, err) ==
    /\ pc[r] = "awaiting"
    /\ budget.answers > 0
    /\ Resume(r,
              failTurn(state.steps, messages[r], finalAnswer[r], err, now + 1),
              [ok |-> FALSE, value |-> err])

\* An update that adds the new entries to the map and keeps the old ones.
UpdateDocumentsMerging(m) ==
    /\ budget.updates > 0
    /\ budget' = [budget EXCEPT !.updates = @ - 1]
    /\ documents' = m \o [i \in 1..Cardinality({k \in 1..Len(documents) :
                                   \A j \in 1..Len(m) : m[j] # documents[k]}) |->
                             documents[CHOOSE k \in 1..Len(documents) :
                                 /\ \A j \in 1..Len(m) : m[j] # documents[k]
                                 /\ Cardinality({h \in 1..k :
                                        \A j \in 1..Len(m) : m[j] # documents[h]}) = i]]
    /\ UNCHANGED <<state, now, pc, query, messages, iterations, finalAnswer,
                   returned, calls, own, turns, probe, routerVars, visualizerVars>>

\* ReactRagAgent.updateDocuments.
UpdateDocuments(m) ==
    /\ budget.updates > 0
    /\ budget' = [budget EXCEPT !.updates = @ - 1]
    /\ documents' = m
    /\ UNCHANGED <<state, now, pc, query, messages, iterations, finalAnswer,
                   returned, calls, own, turns, probe, routerVars, visualizerVars>>

Next ==
    \/ \E r \in Runs, q \in Queries : ProcessQuery(r, q)
    \/ \E r \in Runs, content \in Replies : ModelReplies(r, content)
    \/ \E r \in Runs, err \in ModelErrors : ModelFails(r, err)
    \/ \E m \in DocMaps : UpdateDocuments(m)

Spec == Init /\ [][Next]_vars

\* The awaited model.invoke of run r settles: it resolves or rejects.
ModelAnswers(r) ==
    \/ \E content \in Replies : ModelReplies(r, content)
    \/ \E err \in ModelErrors : ModelFails(r, err)

\* The behaviours in which every model call settles: the model answers at
\* least as many calls as the clients' processQuery calls can make, and an
\* outstanding call of a run is eventually answered.
InitLive ==
    /\ Init
    /\ budget.answers >= budget.calls * maxIterations

SpecLive ==
    /\ InitLive
    /\ [][Next]_vars
    /\ \A r \in Runs : WF_vars(ModelAnswers(r))

----------------------------------------------------------------------------
\* retrieveDocuments called directly, on a document map and a phrase drawn
\* from the sets below.

\* A content two characters longer than an excerpt; its last two characters
\* occur nowhere else in it.
ContentLong ==
    [i \in 1..(ExcerptLimit + 2) |->
        IF i = ExcerptLimit + 1 THEN "Q"
        ELSE IF i = ExcerptLimit + 2 THEN "z"
        ELSE IF i % 5 = 0 THEN " " ELSE "a"]

\* A content exactly as long as an excerpt.
ContentExact ==
    [i \in 1..ExcerptLimit |-> IF i = ExcerptLimit THEN "E" ELSE "b"]

\* A document named doc1 and two phrases to look it up by: a question that
\* mentions a word of its content, and that word.
TitleDoc1 ==
    <<"d","o","c","1">>

ContentPython ==
    <<"P","y","t","h","o","n"," ","i","s"," ","g","r","e","a","t"," ","f","o","r"," ",
      "r","e","a","d","a","b","i","l","i","t","y"," ","a","n","d"," ",
      "l","i","b","r","a","r","i","e","s",".">>

PhraseTellPython ==
    <<"T","e","l","l"," ","m","e"," ","a","b","o","u","t"," ","P","y","t","h","o","n">>

PhrasePython ==
    <<"P","y","t","h","o","n">>

DocPython == [title |-> TitleDoc1, content |-> ContentPython]

DocLong == [title |-> <<"L", "o", "n", "g">>, content |-> ContentLong]

DocExact == [title |-> <<"E", "x">>, content |-> ContentExact]

ProbeDocs == {DocPets, DocCats, DocLong, DocExact, DocPython}

\* The number of documents of a probed map.
MaxDocs == 3

\* The maps of at most MaxDocs documents, in every insertion order.
ProbeDocMaps ==
    UNION {{m \in [1..n -> ProbeDocs] : \A i, j \in 1..n : m[i] = m[j] => i = j} :
           n \in 0..MaxDocs}

ProbePhrases ==
    {<<>>, <<"c", "a", "t", "s">>, <<"C", "A", "T">>, <<"q", "Z">>, <<"e">>,
     <<"A">>, <<"p", "e", "t", "s">>, <<"z", "e", "b", "r", "a">>,
     PhraseTellPython, PhrasePython}

InitRetrieve ==
    /\ documents \in ProbeDocMaps
    /\ budget = NoWorkload
    /\ InitRuns
    /\ probe \in {[tool |-> "retrieveDocuments", query |-> p, output |-> <<>>,
                   called |-> FALSE] : p \in ProbePhrases}
    /\ RouterIdle
    /\ VisualizerMounted

RetrieveDirectly ==
    /\ probe.tool = "retrieveDocuments"
    /\ ~probe.called
    /\ probe' = [probe EXCEPT !.output = retrieveDocuments(documents, probe.query),
                              !.called = TRUE]
    /\ UNCHANGED <<agentVars, routerVars, visualizerVars>>

NextRetrieve == RetrieveDirectly

SpecRetrieve == InitRetrieve /\ [][NextRetrieve]_vars

----------------------------------------------------------------------------
\* analyzeText called directly, on a text and a query drawn from the sets
\* below.

TextPython ==
    <<"P","y","t","h","o","n"," ","i","s"," ","f","a","s","t","."," ",
      "P","y","t","h","o","n"," ","i","s"," ","r","e","a","d","a","b","l","e","."," ",
      "C","a","t","s"," ","a","r","e"," ","c","u","t","e",".">>

QueryPythonReadable ==
    <<"P","y","t","h","o","n"," ","r","e","a","d","a","b","l","e">>

\* Five sentences that mention a cat, ended by every kind of terminator and
\* by runs of them.
TextFiveCats ==
    <<"a"," ","c","a","t",".","b"," ","C","A","T","!","?","c"," ","c","a","t","?",
      "d"," ","c","a","t",".",".",".","e"," ","c","a","t">>

\* A text that starts with a terminator and holds a blank sentence.
TextBlankSentence ==
    <<".","C","a","t","s",".","\t"," ","!","D","o","g","s"," ","b","a","r","k">>

\* The texts a caller may have analyzed.
ProbeTexts ==
    {<<>>, TextPython, ContentPets, TextFiveCats, TextBlankSentence, ContentCats}

\* The queries: several words, one word in either letter case, the empty
\* query, words apart by two spaces, by a tab, after a leading space, and
\* words no text holds.
ProbeQueries ==
    {QueryPythonReadable, <<"c","a","t">>, <<"C","A","T","S">>, <<>>,
     <<"z","e","b","r","a"," "," ","y","a","k">>,
     <<"z","e","b","r","a","\t","c","a","t">>,
     <<" ","y","a","k">>, <<"z","e","b","r","a">>,
     <<"y","a","k"," ","d","o","g","s">>, <<"e","!">>}

InitAnalyze ==
    /\ documents = <<>>
    /\ budget = NoWorkload
    /\ InitRuns
    /\ probe \in {[tool |-> "analyzeText", text |-> x, query |-> q,
                   output |-> <<>>, called |-> FALSE] :
                      x \in ProbeTexts, q \in ProbeQueries}
    /\ RouterIdle
    /\ VisualizerMounted

AnalyzeDirectly ==
    /\ probe.tool = "analyzeText"
    /\ ~probe.called
    /\ probe' = [probe EXCEPT !.output = analyzeText(probe.text, probe.query),
                              !.called = TRUE]
    /\ UNCHANGED <<agentVars, routerVars, visualizerVars>>

NextAnalyze == AnalyzeDirectly

SpecAnalyze == InitAnalyze /\ [][NextAnalyze]_vars

----------------------------------------------------------------------------
\* Vocabulary of the properties.

Last(s) == s[Len(s)]

IsPrefix(s, t) ==
    Len(s) <= Len(t) /\ SubSeq(t, 1, Len(s)) = s

\* The type and content of each step of a log, timestamps left out.
Unstamped(steps) ==
    [i \in 1..Len(steps) |-> <<steps[i].type, steps[i].content>>]

\* The text mentions the (lower-case) word w in some letter case.
Mentions(text, w) ==
    \E i \in 0..(Len(text) - Len(w)) :
        \A k \in 1..Len(w) : LowerChar(text[i + k]) = w[k]

HasMarker(text) ==
    Mentions(text, KwFinalAnswer) \/ Mentions(text, KwAnswerColon)

HasToolKeyword(text) ==
    \/ Mentions(text, KwRetrieve)
    \/ Mentions(text, KwSearch)
    \/ Mentions(text, KwAnalyze)
    \/ Mentions(text, KwExtract)

\* Run r was the only processQuery call so far.
Alone(r) ==
    \A p \in Runs \ {r} : pc[p] = "idle"

\* The first step of run r: the thought "Analyzing query".
FirstThought(r) ==
    <<"thought", AnalyzingQueryPrefix \o query[r] \o <<"\"">>>>

\* The result a caller gets for a final reply: the reply, or the fallback
\* text when the reply is empty.
ResultFor(reply) ==
    IF Len(reply) = 0 THEN FallbackAnswer ELSE reply

\* Turn i of run r got a reply (not an error).
Replied(r, i) ==
    i \in 1..Len(turns[r]) /\ turns[r][i].event.ok

\* Turn i of run r ended with the reply recorded as the result step, without
\* a tool call, and was the last model call of the run.
EndsWithResult(r, i) ==
    LET reply == turns[r][i].event.value
    IN  /\ Unstamped(turns[r][i].appended) =
               <<<<"thought", reply>>, <<"result", reply>>>>
        /\ turns[r][i].tools = <<>>
        /\ Len(turns[r]) = i
        /\ calls[r] = i
        /\ pc[r] = "done"

----------------------------------------------------------------------------
\* C1. Original statement: the step log a processQuery run returns has at
\* most 2*maxIterations + 1 entries (11).
C1_LogAtMost11 ==
    \A r \in Runs :
        pc[r] = "done" => Len(returned[r].steps) <= 2 * maxIterations + 1

\* C1, amended: a processQuery run appends at most 3*maxIterations steps (15):
\* the first thought, three steps in each of at most maxIterations - 1 tool
\* turns and two in the last turn; the log returned by a run that no other
\* call overlapped has at most 15 entries.
C1_AppendsAtMost15 ==
    \A r \in Runs :
        /\ Len(own[r]) <= 3 * maxIterations
        /\ Len(own[r]) <= 15
        /\ (pc[r] = "done" /\ Alone(r)) => Len(returned[r].steps) <= 15

\* A run of four tool turns and a last turn returns 15 steps.
C1_Witness ==
    \E r \in Runs :
        pc[r] = "done" /\ Len(turns[r]) = 5 /\ Len(returned[r].steps) = 15

\* C2. A processQuery call returns exactly the steps its own run produced,
\* in order, also when another call overlaps it.
C2_ReturnsOwnSteps ==
    \A r \in Runs :
        pc[r] = "done" => returned[r].steps = own[r]

\* C3. A run invokes the model at most maxIterations = 5 times.
C3_AtMostFiveCalls ==
    /\ maxIterations = 5
    /\ \A r \in Runs : calls[r] <= 5 /\ Len(turns[r]) <= calls[r]

\* A run that went through five model calls and returned, with answers left
\* to give.
C3_Witness ==
    \E r \in Runs :
        pc[r] = "done" /\ calls[r] = 5 /\ Len(turns[r]) = 5 /\ budget.answers > 0

\* C4. While a processQuery run is in progress the step log only grows at
\* its end and its timestamps are non-decreasing.
C4_LogOnlyGrows ==
    [][\A r \in Runs :
          (pc[r] = "awaiting" /\ pc'[r] # "idle") =>
              /\ IsPrefix(state.steps, state'.steps)
              /\ \A i \in 1..(Len(state'.steps) - 1) :
                     state'.steps[i].timestamp <= state'.steps[i + 1].timestamp]_vars

\* The first reply of run r has no tool keyword and no final-answer marker.
FirstReplyPlain(r) ==
    /\ Replied(r, 1)
    /\ ~HasMarker(turns[r][1].event.value)
    /\ ~HasToolKeyword(turns[r][1].event.value)

\* C5. Original statement: after such a first reply the run has made exactly
\* one model call, recorded the reply as the result step and returned the
\* reply as the result.
C5_PlainReplyReturned ==
    \A r \in Runs :
        FirstReplyPlain(r) =>
            /\ EndsWithResult(r, 1)
            /\ returned[r].result = turns[r][1].event.value

\* C5, amended: after such a first reply the run has made exactly one model
\* call and recorded the reply as the result step; it returns the reply as
\* the result when the reply is not empty, and the fallback text when it is.
C5_PlainReplyEndsRun ==
    \A r \in Runs :
        FirstReplyPlain(r) =>
            /\ EndsWithResult(r, 1)
            /\ Unstamped(own[r]) =
                   <<FirstThought(r)>> \o Unstamped(turns[r][1].appended)
            /\ returned[r].result = ResultFor(turns[r][1].event.value)

\* A run whose first reply was plain and not empty, with answers left.
C5_Witness ==
    \E r \in Runs :
        /\ FirstReplyPlain(r)
        /\ turns[r][1].event.value = ReplyPlain
        /\ returned[r].result = ReplyPlain
        /\ budget.answers > 0

\* C6. A turn whose reply holds "final answer" or "answer:" in any letter
\* case records the reply as the result step, calls no tool even if the
\* reply holds a tool keyword, and is the run's last model call.
C6_MarkerEndsRun ==
    \A r \in Runs : \A i \in 1..Len(turns[r]) :
        (Replied(r, i) /\ HasMarker(turns[r][i].event.value)) =>
            /\ EndsWithResult(r, i)
            /\ Last(own[r]) = Last(turns[r][i].appended)

\* An upper-case marker next to a tool keyword, after a tool turn, with
\* answers left.
C6_Witness ==
    \E r \in Runs :
        /\ Len(turns[r]) >= 2
        /\ Last(turns[r]).event = [ok |-> TRUE, value |-> ReplyAnswerSearch]
        /\ HasToolKeyword(ReplyAnswerSearch)
        /\ budget.answers > 0

\* C7. Original statement: the reply of the turn at the iteration bound is
\* recorded as the result step and returned as the result whatever its
\* content, and no tool runs in that turn.
C7_BoundReplyReturned ==
    \A r \in Runs :
        Replied(r, maxIterations) =>
            /\ EndsWithResult(r, maxIterations)
            /\ returned[r].result = turns[r][maxIterations].event.value

\* C7, amended: the reply of the turn at the iteration bound is recorded as
\* the result step whatever its content and no tool runs in that turn; it is
\* returned as the result when it is not empty, and the fallback text is
\* returned when it is empty.
C7_BoundEndsRun ==
    \A r \in Runs :
        Replied(r, 5) =>
            /\ turns[r][5].iteration = maxIterations
            /\ EndsWithResult(r, 5)
            /\ returned[r].result = ResultFor(turns[r][5].event.value)

\* A fifth turn whose reply asks for a retrieval.
C7_Witness ==
    \E r \in Runs :
        /\ Replied(r, 5)
        /\ turns[r][5].event.value = ReplyRetrieve
        /\ returned[r].result = ReplyRetrieve

\* The description of a thrown value in the log.
Described(err) ==
    ErrorPrefix \o (IF err.isError THEN err.message ELSE UnknownError)

\* Run r resolves in this step, its last model call having failed.
FailsNow(r) ==
    /\ pc[r] = "awaiting"
    /\ Len(turns'[r]) = Len(turns[r]) + 1
    /\ ~Last(turns'[r]).event.ok

\* C8. When a model call fails the call does not throw: it resolves, in
\* the same step, with the fallback answer and the steps logged so far, to
\* which exactly one thought describing the error was appended and no
\* result step.
C8_FailureCaught ==
    [][\A r \in Runs :
          FailsNow(r) =>
              /\ pc'[r] = "done"
              /\ returned'[r].result = FallbackAnswer
              /\ returned'[r].steps = state'.steps
              /\ Unstamped(state'.steps) = Unstamped(state.steps) \o
                     <<<<"thought", Described(Last(turns'[r]).event.value)>>>>
              /\ Len(own'[r]) = Len(own[r]) + 1
              /\ Last(own'[r]) = Last(state'.steps)
              /\ \A i \in 1..Len(own'[r]) : own'[r][i].type # "result"]_vars

\* A run that failed with an Error in a later turn and returned the
\* fallback answer.
C8_Witness ==
    \E r \in Runs :
        /\ pc[r] = "done"
        /\ Len(turns[r]) >= 2
        /\ Last(turns[r]).event =
               [ok |-> FALSE, value |-> [isError |-> TRUE, message |-> TimeoutMessage]]
        /\ returned[r].result = FallbackAnswer

\* C9. A failed model call is the last model call of its run.
C9_NoRetry ==
    \A r \in Runs : \A i \in 1..Len(turns[r]) :
        ~turns[r][i].event.ok =>
            /\ Len(turns[r]) = i
            /\ calls[r] = i
            /\ pc[r] = "done"

\* A run whose model call failed before the bound, with answers left.
C9_Witness ==
    \E r \in Runs :
        /\ Len(turns[r]) \in 1..(maxIterations - 1)
        /\ ~Last(turns[r]).event.ok
        /\ pc[r] = "done"
        /\ budget.answers > 0

----------------------------------------------------------------------------
\* The phrase occurs in the text, letter case ignored on both sides.
ContainsIgnoringCase(text, phrase) ==
    \E i \in 0..(Len(text) - Len(phrase)) :
        \A k \in 1..Len(phrase) : LowerChar(text[i + k]) = LowerChar(phrase[k])

\* The documents of a map that a phrase selects, in the map's order.
RECURSIVE Selected(_, _)
Selected(docs, phrase) ==
    IF Len(docs) = 0 THEN <<>>
    ELSE LET d == docs[Len(docs)]
             before == Selected(SubSeq(docs, 1, Len(docs) - 1), phrase)
         IN  IF \/ ContainsIgnoringCase(d.title, phrase)
                \/ ContainsIgnoringCase(d.content, phrase)
             THEN Append(before, d)
             ELSE before

\* What an excerpt shows: the title in brackets, a line break, the first 500
\* characters of the content and an ellipsis.
Shown(d) ==
    <<"[">> \o d.title \o <<"]", "\n">>
    \o [k \in 1..(IF Len(d.content) < 500 THEN Len(d.content) ELSE 500) |-> d.content[k]]
    \o <<".", ".", ".">>

\* The excerpts of a non-empty selection, the delimiter between neighbours.
RECURSIVE Delimited(_)
Delimited(docs) ==
    IF Len(docs) = 1 THEN Shown(docs[1])
    ELSE Delimited(SubSeq(docs, 1, Len(docs) - 1)) \o ExcerptDelimiter
         \o Shown(docs[Len(docs)])

\* C10. Retrieval returns the excerpts of exactly the documents whose title
\* or content holds the phrase in any letter case, in map order, each showing
\* the title and the first 500 characters of the content, joined by the
\* delimiter (and the no-match sentinel when there is none).
C10_RetrievalOutput ==
    probe.called =>
        LET hits == Selected(documents, probe.query)
        IN  probe.output = IF Len(hits) = 0 THEN NoDocsSentinel ELSE Delimited(hits)

\* A retrieval that selected two documents of three by a phrase in another
\* letter case, one of them longer than an excerpt.
C10_Witness ==
    /\ probe.called
    /\ Len(documents) = 3
    /\ Len(Selected(documents, probe.query)) = 2
    /\ \E i \in 1..2 : Len(Selected(documents, probe.query)[i].content) > 500
    /\ \E i \in 1..Len(probe.query) : probe.query[i] # LowerChar(probe.query[i])
    /\ probe.output # NoDocsSentinel

----------------------------------------------------------------------------
\* Retrieval was called directly on the single document doc1 with phrase p.
LooksUpDoc1(p) ==
    /\ probe.tool = "retrieveDocuments"
    /\ probe.called
    /\ documents = <<DocPython>>
    /\ probe.query = p

\* C11. Original statement: with the single document doc1 ("Python is great
\* for readability and libraries."), Retrieval called directly with the query
\* "Tell me about Python" returns a text that holds "[doc1]" and the
\* document's text cut at 500 characters.
C11_QuestionFindsDoc1 ==
    LooksUpDoc1(PhraseTellPython) =>
        /\ includes(probe.output, <<"[">> \o TitleDoc1 \o <<"]">>)
        /\ includes(probe.output, SubSeq(ContentPython, 1, Len(ContentPython)))

\* C11, amended: with that document, Retrieval called with the whole question
\* returns the no-match sentinel, because neither the title nor the content
\* holds the whole question; called with the word "Python" it returns
\* "[doc1]", a line break, the whole text (shorter than 500 characters) and
\* an ellipsis.
C11_WordFindsDoc1 ==
    /\ LooksUpDoc1(PhraseTellPython) => probe.output = NoDocsSentinel
    /\ LooksUpDoc1(PhrasePython) =>
           probe.output = <<"[">> \o TitleDoc1 \o <<"]", "\n">> \o ContentPython
                          \o <<".", ".", ".">>

\* Retrieval was called on doc1 with the whole question, whose last word the
\* content holds.
C11_Witness ==
    /\ LooksUpDoc1(PhraseTellPython)
    /\ ContainsIgnoringCase(ContentPython, PhrasePython)
    /\ Len(ContentPython) < 500

\* C12. Retrieval returns the no-match sentinel exactly when no document's
\* title or content holds the phrase, letter case ignored.
C12_SentinelIffNoMatch ==
    (probe.tool = "retrieveDocuments" /\ probe.called) =>
        ((probe.output = NoDocsSentinel) <=>
            \A i \in 1..Len(documents) :
                /\ ~ContainsIgnoringCase(documents[i].title, probe.query)
                /\ ~ContainsIgnoringCase(documents[i].content, probe.query))

\* A retrieval on a map of several documents that found none of them.
C12_Witness ==
    /\ probe.tool = "retrieveDocuments"
    /\ probe.called
    /\ Len(documents) >= 2
    /\ Len(probe.query) > 0
    /\ probe.output = NoDocsSentinel

----------------------------------------------------------------------------
\* Turn i of run r called Retrieval and got the no-match sentinel.
RetrievedNothing(r, i) ==
    /\ Replied(r, i)
    /\ Len(turns[r][i].tools) > 0
    /\ turns[r][i].tools[1].tool = "retrieveDocuments"
    /\ turns[r][i].tools[1].result = NoDocsSentinel

\* C13. A retrieval that returns the no-match sentinel is handled like any
\* tool result: the turn appends the thought, the action and an observation
\* holding the sentinel, and no error step; the reply and the sentinel (in
\* the tool-result wording) are pushed onto the message list; and the run
\* goes on to its next model call.
C13_SentinelIsObserved ==
    \A r \in Runs : \A i \in 1..Len(turns[r]) :
        RetrievedNothing(r, i) =>
            /\ Unstamped(turns[r][i].appended) =
                   <<<<"thought", turns[r][i].event.value>>,
                     <<"action", <<"R","e","t","r","i","e","v","i","n","g"," ",
                                   "d","o","c","u","m","e","n","t","s"," ",
                                   "f","o","r",":"," ","\"">>
                                 \o turns[r][i].tools[1].arg \o <<"\"">>>>,
                     <<"observation", NoDocsSentinel>>>>
            /\ \A k \in 1..Len(turns[r][i].appended) :
                   ~IsPrefix(ErrorPrefix, turns[r][i].appended[k].content)
            /\ Len(messages[r]) >= 2 + 2 * i
            /\ messages[r][1 + 2 * i] =
                   [role |-> "human", content |-> turns[r][i].event.value]
            /\ messages[r][2 + 2 * i] =
                   [role |-> "human",
                    content |-> RetrievalResultPrefix \o NoDocsSentinel
                                \o RetrievalResultSuffix]
            /\ turns[r][i].iteration < maxIterations
            /\ calls[r] >= i + 1
            /\ (Len(turns[r]) = i => pc[r] = "awaiting")

\* A run whose first retrieval, for a non-empty phrase, found nothing, and
\* which has since got the reply of its next model call.
C13_Witness ==
    \E r \in Runs :
        /\ RetrievedNothing(r, 1)
        /\ Len(turns[r][1].tools[1].arg) > 0
        /\ Len(turns[r]) >= 2
        /\ Replied(r, 2)

----------------------------------------------------------------------------
\* The characters that end a pseudo-sentence.
Terminators == {".", "!", "?"}

\* The last position of the run of characters outside `stops` that starts at
\* position a of the text.
RunEnd(text, a, stops) ==
    CHOOSE b \in a..Len(text) :
        /\ \A k \in a..b : text[k] \notin stops
        /\ (b = Len(text) \/ text[b + 1] \in stops)

\* The pseudo-sentences of a text from position a on, in order: the maximal
\* runs of characters that are not terminators.
RECURSIVE SentencesFrom(_, _)
SentencesFrom(text, a) ==
    IF a > Len(text) THEN <<>>
    ELSE IF text[a] \in Terminators THEN SentencesFrom(text, a + 1)
    ELSE <<SubSeq(text, a, RunEnd(text, a, Terminators))>>
         \o SentencesFrom(text, RunEnd(text, a, Terminators) + 1)

\* The whitespace-delimited tokens of a query: its maximal runs of
\* characters that are not white space.
Tokens(q) ==
    {SubSeq(q, a, RunEnd(q, a, WhitespaceChars)) :
        a \in {i \in 1..Len(q) : /\ q[i] \notin WhitespaceChars
                                  /\ (i = 1 \/ q[i - 1] \in WhitespaceChars)}}

\* The sentence holds a token of the query, letter case ignored.
HoldsToken(sentence, q) ==
    \E token \in Tokens(q) : ContainsIgnoringCase(sentence, token)

\* The sentences of a sequence that hold a token of the query, in order.
RECURSIVE Kept(_, _)
Kept(sentences, q) ==
    IF Len(sentences) = 0 THEN <<>>
    ELSE (IF HoldsToken(sentences[1], q) THEN <<sentences[1]>> ELSE <<>>)
         \o Kept(Tail(sentences), q)

\* The sentences of a non-empty sequence, one to a line.
RECURSIVE Lines(_)
Lines(sentences) ==
    IF Len(sentences) = 1 THEN sentences[1]
    ELSE sentences[1] \o <<"\n">> \o Lines(Tail(sentences))

\* The findings block of a non-empty sequence of kept sentences: the heading
\* and at most the first three of them.
Findings(kept) ==
    <<"K","e","y"," ","f","i","n","d","i","n","g","s",":","\n">>
    \o Lines(SubSeq(kept, 1, IF Len(kept) < 3 THEN Len(kept) ELSE 3))

\* The outcome the contract describes once the kept sentences are known.
FindingsOrSentinel(kept) ==
    IF Len(kept) = 0 THEN NoFindingsSentinel ELSE Findings(kept)

\* C14. The Analysis Tool keeps a pseudo-sentence exactly when it holds, in
\* any letter case, a whitespace-delimited token of the query; it returns the
\* heading and at most the first three kept sentences in order, one to a
\* line, and the no-findings sentinel exactly when it kept none; for every
\* query, the empty one and those with runs of white space included.
C14_KeepsSentencesWithToken ==
    (probe.tool = "analyzeText" /\ probe.called) =>
        probe.output =
            FindingsOrSentinel(Kept(SentencesFrom(probe.text, 1), probe.query))

\* C15. On "Python is fast. Python is readable. Cats are cute." with the
\* query "Python readable" the Analysis Tool returns a findings block of two
\* lines that holds the first two sentences and not the third.
C15_PythonExample ==
    (/\ probe.tool = "analyzeText"
     /\ probe.called
     /\ probe.text = TextPython
     /\ probe.query = QueryPythonReadable) =>
        /\ IsPrefix(<<"K","e","y"," ","f","i","n","d","i","n","g","s",":">>,
                    probe.output)
        /\ includes(probe.output, <<"P","y","t","h","o","n"," ","i","s"," ",
                                    "f","a","s","t">>)
        /\ includes(probe.output, <<"P","y","t","h","o","n"," ","i","s"," ",
                                    "r","e","a","d","a","b","l","e">>)
        /\ ~includes(probe.output, <<"C","a","t","s">>)
        /\ ~includes(probe.output, <<"c","u","t","e">>)
        /\ Cardinality({k \in 1..Len(probe.output) : probe.output[k] = "\n"}) = 2

\* The Analysis Tool was called on the example's text and query.
C15_Witness ==
    /\ probe.tool = "analyzeText"
    /\ probe.called
    /\ probe.text = TextPython
    /\ probe.query = QueryPythonReadable
    /\ probe.output # NoFindingsSentinel

----------------------------------------------------------------------------
IsResultStep(step) == step.type = "result"

\* C16. Original statement: processQuery returns the step log of its run
\* together with a result that is the content of the log's result step when
\* the log has one, and the fallback text when it has none; for every reply,
\* the empty reply included.
C16_ResultIsResultStep ==
    \A r \in Runs :
        pc[r] = "done" =>
            /\ returned[r].steps = own[r]
            /\ IF SelectSeq(returned[r].steps, IsResultStep) # <<>>
               THEN returned[r].result =
                        Last(SelectSeq(returned[r].steps, IsResultStep)).content
               ELSE returned[r].result = FallbackAnswer

\* C16, amended: processQuery returns the agent's step log as it stands when
\* the call returns (the run's own steps when no other call overlapped it)
\* together with a result that is the content of the result step the run
\* appended when that content is not empty, and the fallback text when the
\* run appended no result step or one whose content is the empty reply.
C16_ResultOrFallback ==
    [][\A r \in Runs :
          (pc[r] = "awaiting" /\ pc'[r] = "done") =>
              /\ returned'[r].steps = state'.steps
              /\ (Alone(r) => returned'[r].steps = own'[r])
              /\ Len(SelectSeq(own'[r], IsResultStep)) <= 1
              /\ returned'[r].result =
                     IF /\ SelectSeq(own'[r], IsResultStep) # <<>>
                        /\ SelectSeq(own'[r], IsResultStep)[1].content # <<>>
                     THEN SelectSeq(own'[r], IsResultStep)[1].content
                     ELSE FallbackAnswer]_vars

\* A run that ended, after a tool turn, on an empty reply: its log holds a
\* result step with the empty content and it returned the fallback text.
C16_Witness ==
    \E r \in Runs :
        /\ pc[r] = "done"
        /\ Len(turns[r]) >= 2
        /\ Last(turns[r]).event = [ok |-> TRUE, value |-> ReplyEmpty]
        /\ Last(returned[r].steps).type = "result"
        /\ Last(returned[r].steps).content = <<>>
        /\ returned[r].result = FallbackAnswer

----------------------------------------------------------------------------
\* C17. updateDocuments(m) replaces the document map wholesale: after the
\* call the map is exactly m, an entry of the previous map is in it only if
\* m holds it, and the run state (steps, query, isProcessing) and every run
\* in progress are as they were.
C17_ReplacesWholesale ==
    [][\A m \in DocMaps :
          UpdateDocuments(m) =>
              /\ documents' = m
              /\ \A i \in 1..Len(documents) :
                     (\E j \in 1..Len(documents') : documents'[j] = documents[i])
                         => \E j \in 1..Len(m) : m[j] = documents[i]
              /\ state'.steps = state.steps
              /\ state'.currentQuery = state.currentQuery
              /\ state'.isProcessing = state.isProcessing
              /\ state'.documents = state.documents
              /\ <<pc', query', messages', iterations', finalAnswer', returned'>>
                     = <<pc, query, messages, iterations, finalAnswer, returned>>]_vars

\* The map was replaced a second time, by a map of one document, while a
\* run was waiting for the model.
C17_Witness ==
    /\ MaxReplaceUpdates >= 2
    /\ budget = [calls |-> 0, answers |-> MaxReplaceAnswers, updates |-> 0]
    /\ pc[1] = "awaiting"
    /\ turns[1] = <<>>
    /\ state.isProcessing
    /\ documents = <<DocPets>>

----------------------------------------------------------------------------
\* C18. A run has at most one model call outstanding, and has one exactly
\* while it is suspended on it: each model call is started after all earlier
\* calls of the run have returned or failed and the tool call of the turn, if
\* any, has produced its result; a turn makes at most one tool call.
C18_OneCallAtATime ==
    \A r \in Runs :
        /\ calls[r] - Len(turns[r]) \in {0, 1}
        /\ (calls[r] - Len(turns[r]) = 1) <=> (pc[r] = "awaiting")
        /\ \A i \in 1..Len(turns[r]) :
               /\ Len(turns[r][i].tools) <= 1
               /\ (Len(turns[r][i].tools) = 1 =>
                      /\ turns[r][i].event.ok
                      /\ Last(turns[r][i].appended) =
                             [type |-> "observation",
                              content |-> turns[r][i].tools[1].result,
                              timestamp |-> Last(turns[r][i].appended).timestamp])

\* A run suspended on its third model call, after two turns that each ran a
\* tool.
C18_Witness ==
    \E r \in Runs :
        /\ pc[r] = "awaiting"
        /\ calls[r] = 3
        /\ Len(turns[r]) = 2
        /\ Len(turns[r][1].tools) = 1
        /\ Len(turns[r][2].tools) = 1

----------------------------------------------------------------------------
\* The replies and failures run r got from the model, in order.
Answers(r) ==
    [i \in 1..Len(turns[r]) |-> turns[r][i].event]

\* The tool calls of run r with their outputs, turn by turn.
ToolOutputs(r) ==
    [i \in 1..Len(turns[r]) |-> turns[r][i].tools]

\* C19. Two processQuery runs that got the same query and the same sequence
\* of model replies, on the same document map (the map is never replaced in
\* a behaviour with two calls), had the same Retrieval and Analysis outputs
\* and returned the same sequence of step types and contents.
C19_SameInputsSameSteps ==
    \A r1, r2 \in Runs :
        (/\ pc[r1] = "done"
         /\ pc[r2] = "done"
         /\ query[r1] = query[r2]
         /\ Answers(r1) = Answers(r2)) =>
            /\ ToolOutputs(r1) = ToolOutputs(r2)
            /\ Unstamped(returned[r1].steps) = Unstamped(returned[r2].steps)

----------------------------------------------------------------------------
\* Turn i of run r got a reply without a final-answer marker, below the
\* iteration bound.
NonFinal(r, i) ==
    /\ Replied(r, i)
    /\ ~HasMarker(turns[r][i].event.value)
    /\ turns[r][i].iteration < maxIterations

AsksRetrieval(text) ==
    Mentions(text, KwRetrieve) \/ Mentions(text, KwSearch)

AsksAnalysis(text) ==
    Mentions(text, KwAnalyze) \/ Mentions(text, KwExtract)

\* The tools turn i of run r called, by name.
ToolsCalled(r, i) ==
    [k \in 1..Len(turns[r][i].tools) |-> turns[r][i].tools[k].tool]

\* C20. A turn calls at most one tool. The Analysis Tool is called exactly
\* in the non-final turns whose reply holds "analyze" or "extract" and
\* neither "retrieve" nor "search"; a non-final turn whose reply holds a
\* retrieval keyword, with or without an analysis keyword, calls Retrieval
\* only.
C20_AnalysisOnlyWithoutRetrieval ==
    \A r \in Runs : \A i \in 1..Len(turns[r]) :
        /\ Len(turns[r][i].tools) <= 1
        /\ (ToolsCalled(r, i) = <<"analyzeText">>) <=>
               (/\ NonFinal(r, i)
                /\ AsksAnalysis(turns[r][i].event.value)
                /\ ~AsksRetrieval(turns[r][i].event.value))
        /\ (NonFinal(r, i) /\ AsksRetrieval(turns[r][i].event.value)) =>
               ToolsCalled(r, i) = <<"retrieveDocuments">>

\* A run in which a reply with both kinds of keyword led to a retrieval and
\* a later reply with an analysis keyword alone led to an analysis.
C20_Witness ==
    \E r \in Runs : \E i, j \in 1..Len(turns[r]) :
        /\ i < j
        /\ NonFinal(r, i)
        /\ AsksRetrieval(turns[r][i].event.value)
        /\ AsksAnalysis(turns[r][i].event.value)
        /\ ToolsCalled(r, i) = <<"retrieveDocuments">>
        /\ ToolsCalled(r, j) = <<"analyzeText">>

----------------------------------------------------------------------------
\* The router: uploadDocument, processQuery and streamQuery, with the
\* database helpers they call. An endpoint call is cut at its awaits; the
\* code between two awaits is one action.

Users == {1, 2}

\* How many endpoint calls a behaviour holds, and its workloads: uploads
\* only; an upload, a query and a read; and queries only.
MaxRequests == 3

MaxUploads == 2

MaxEndpointQueries == 2

MaxEndpointAnswers == 2

RequestIds == 1..MaxRequests

RouterWorkloads ==
    {[calls |-> 0, answers |-> 0, updates |-> MaxUploads, reads |-> 0],
     [calls |-> 1, answers |-> 1, updates |-> 1, reads |-> 1],
     [calls |-> MaxEndpointQueries, answers |-> MaxEndpointAnswers, updates |-> 0,
      reads |-> 0]}

\* A second document under the title of DocPets.
DocPetsRevised == [title |-> TitlePets, content |-> ContentCats]

UploadInputs == {DocPets, DocCats, DocPetsRevised}

QueryEndpoints == {"processQuery", "streamQuery"}

\* throw new Error("Database not available")
DatabaseNotAvailable ==
    [isError |-> TRUE,
     message |-> <<"D","a","t","a","b","a","s","e"," ","n","o","t"," ",
                   "a","v","a","i","l","a","b","l","e">>]

\* What the constructor of the model client may throw for the configured
\* key: an Error with a message, or a value that is not an Error.
ConstructorErrors ==
    {[isError |-> TRUE, message |-> <<"n","o"," ","k","e","y">>],
     [isError |-> FALSE, message |-> <<>>]}

\* A column the insert names no value for.
NoValue == <<>>

\* The responses of an endpoint call: the value it resolves with, or the
\* value it rejects with.
Returned(success, result, steps, error) ==
    [kind |-> "returned", success |-> success, result |-> result,
     steps |-> steps, error |-> error]

Thrown(err) ==
    [kind |-> "thrown", success |-> "absent", result |-> <<>>, steps |-> <<>>,
     error |-> err.message]

\* Map.prototype.set on a map kept as the sequence of its entries in
\* insertion order: a key the map holds keeps its place and takes the value.
mapSet(m, title, content) ==
    IF \E i \in 1..Len(m) : m[i].title = title
    THEN [i \in 1..Len(m) |->
             IF m[i].title = title THEN [title |-> title, content |-> content]
             ELSE m[i]]
    ELSE Append(m, [title |-> title, content |-> content])

\* new Map(documents.map((d) => [d.title, d.content]))
RECURSIVE docMapOf(_)
docMapOf(rows) ==
    IF rows = <<>> THEN <<>>
    ELSE mapSet(docMapOf(SubSeq(rows, 1, Len(rows) - 1)),
                Last(rows).title, Last(rows).content)

\* db.select().from(documents).where(eq(documents.userId, userId))
getUserDocuments(userId) ==
    SelectSeq(dbDocuments, LAMBDA row : row.userId = userId)

\* error instanceof Error ? error.message : "Unknown error"
errorMsg(error) ==
    IF error.isError THEN error.message ELSE UnknownError

\* The agent exists once its construction has succeeded.
getRagAgentReturns ==
    ragAgent \/ modelConstructs

InitRouter ==
    /\ documents = <<>>
    /\ budget \in RouterWorkloads
    /\ InitRuns
    /\ probe = NoProbe
    /\ ragAgent = FALSE
    /\ modelConstructs \in BOOLEAN
    /\ dbAvailable \in BOOLEAN
    /\ dbDocuments = <<>>
    /\ dbRagQueries = <<>>
    /\ requests = [c \in RequestIds |-> NoRequest]
    /\ VisualizerMounted

\* Request c is the next endpoint call to be made.
NextRequest(c) ==
    /\ requests[c].at = "idle"
    /\ \A b \in RequestIds : b < c => requests[b].at # "idle"

\* uploadDocument up to the insert of saveDocument.
UploadDocument(c, u, d) ==
    /\ NextRequest(c)
    /\ budget.updates > 0
    /\ budget' = [budget EXCEPT !.updates = @ - 1]
    /\ IF dbAvailable
       THEN /\ dbDocuments' = Append(dbDocuments,
                                  [userId |-> u, title |-> d.title,
                                   content |-> d.content, status |-> "completed"])
            /\ requests' = [requests EXCEPT ![c] =
                               [NoRequest EXCEPT !.endpoint = "uploadDocument",
                                                 !.userId = u, !.input = d.title,
                                                 !.at = "saved"]]
       ELSE /\ requests' = [requests EXCEPT ![c] =
                               [NoRequest EXCEPT !.endpoint = "uploadDocument",
                                                 !.userId = u, !.input = d.title,
                                                 !.at = "done",
                                                 !.response = Thrown(DatabaseNotAvailable)]]
            /\ UNCHANGED dbDocuments
    /\ UNCHANGED <<documents, state, now, pc, query, messages, iterations,
                   finalAnswer, returned, calls, own, turns, probe, ragAgent,
                   modelConstructs, dbAvailable, dbRagQueries, visualizerVars>>

\* uploadDocument from the return of saveDocument to the select of
\* getUserDocuments.
ReadUserDocuments(c) ==
    /\ requests[c].endpoint = "uploadDocument"
    /\ requests[c].at = "saved"
    /\ requests' = [requests EXCEPT ![c].rows = getUserDocuments(requests[c].userId),
                                    ![c].at = "read"]
    /\ UNCHANGED <<agentVars, probe, ragAgent, modelConstructs, dbAvailable,
                   dbDocuments, dbRagQueries, visualizerVars>>

\* uploadDocument from the return of getUserDocuments on: the map is built
\* and handed to getRagAgent().updateDocuments.
InstallDocuments(c) ==
    /\ requests[c].endpoint = "uploadDocument"
    /\ requests[c].at = "read"
    /\ IF getRagAgentReturns
       THEN /\ ragAgent' = TRUE
            /\ documents' = docMapOf(requests[c].rows)
            /\ requests' = [requests EXCEPT
                               ![c].at = "done",
                               ![c].response = Returned("true", <<>>, <<>>, <<>>)]
       ELSE /\ \E err \in ConstructorErrors :
                   requests' = [requests EXCEPT ![c].at = "done",
                                                ![c].response = Thrown(err)]
            /\ UNCHANGED <<ragAgent, documents>>
    /\ UNCHANGED <<state, now, pc, query, messages, iterations, finalAnswer,
                   returned, budget, calls, own, turns, probe, modelConstructs,
                   dbAvailable, dbDocuments, dbRagQueries, visualizerVars>>

\* A query record that is created as already completed.
newRagQueryCompleted(u, q) ==
    [userId |-> u, query |-> q, status |-> "completed", steps |-> NoValue,
     result |-> NoValue]

\* The row saveRagQuery is given: { userId, query, status: "processing" }.
newRagQuery(u, q) ==
    [userId |-> u, query |-> q, status |-> "processing", steps |-> NoValue,
     result |-> NoValue]

\* processQuery or streamQuery up to the insert of saveRagQuery.
QueryEndpoint(c, e, u, q) ==
    /\ NextRequest(c)
    /\ budget.calls > 0
    /\ budget' = [budget EXCEPT !.calls = @ - 1]
    /\ IF dbAvailable
       THEN /\ dbRagQueries' = Append(dbRagQueries, newRagQuery(u, q))
            /\ requests' = [requests EXCEPT ![c] =
                               [NoRequest EXCEPT !.endpoint = e, !.userId = u,
                                                 !.input = q, !.at = "saved"]]
       ELSE /\ requests' = [requests EXCEPT ![c] =
                               [NoRequest EXCEPT !.endpoint = e, !.userId = u,
                                                 !.input = q, !.at = "done",
                                                 !.response = Thrown(DatabaseNotAvailable)]]
            /\ UNCHANGED dbRagQueries
    /\ UNCHANGED <<documents, state, now, pc, query, messages, iterations,
                   finalAnswer, returned, calls, own, turns, probe, ragAgent,
                   modelConstructs, dbAvailable, dbDocuments, visualizerVars>>

\* Query endpoints none of which catches what getRagAgent throws.
responseToThrownUncaught(e, err) ==
    Thrown(err)

\* What a query endpoint does with a value getRagAgent throws: processQuery
\* catches it, streamQuery lets it through.
responseToThrown(e, err) ==
    IF e = "processQuery"
    THEN Returned("false", <<>>, <<>>, errorMsg(err))
    ELSE Thrown(err)

\* A query endpoint from the return of saveRagQuery on: getRagAgent() and
\* agent.processQuery up to its first await.
InvokeAgent(c) ==
    /\ requests[c].endpoint \in QueryEndpoints
    /\ requests[c].at = "saved"
    /\ IF getRagAgentReturns
       THEN /\ ragAgent' = TRUE
            /\ \E r \in Runs :
                   /\ processQuery(r, requests[c].input)
                   /\ requests' = [requests EXCEPT ![c].at = "running",
                                                   ![c].run = r]
       ELSE /\ \E err \in ConstructorErrors :
                   requests' = [requests EXCEPT
                                   ![c].at = "done",
                                   ![c].response =
                                       responseToThrown(requests[c].endpoint, err)]
            /\ UNCHANGED <<ragAgent, documents, state, now, pc, query, messages,
                           iterations, finalAnswer, returned, calls, own, turns>>
    /\ UNCHANGED <<budget, probe, modelConstructs, dbAvailable, dbDocuments,
                   dbRagQueries, visualizerVars>>

\* What a query endpoint returns once agent.processQuery has resolved.
responseToResolved(e, value) ==
    IF e = "processQuery"
    THEN Returned("true", value.result, value.steps, <<>>)
    ELSE Returned("absent", value.result, value.steps, <<>>)

\* A query endpoint from the return of agent.processQuery on.
Respond(c) ==
    /\ requests[c].endpoint \in QueryEndpoints
    /\ requests[c].at = "running"
    /\ pc[requests[c].run] = "done"
    /\ requests' = [requests EXCEPT
                       ![c].at = "done",
                       ![c].response =
                           responseToResolved(requests[c].endpoint,
                                              returned[requests[c].run])]
    /\ UNCHANGED <<agentVars, probe, ragAgent, modelConstructs, dbAvailable,
                   dbDocuments, dbRagQueries, visualizerVars>>

\* A read endpoint call that is over: it resolved with the rows it selected,
\* or rejected as the helper does when there is no database.
readCall(e, u, rows) ==
    [NoRequest EXCEPT
        !.endpoint = e, !.userId = u, !.at = "done",
        !.rows = IF dbAvailable THEN rows ELSE <<>>,
        !.response = IF dbAvailable THEN Returned("absent", <<>>, <<>>, <<>>)
                     ELSE Thrown(DatabaseNotAvailable)]

\* getDocuments: the caller's document rows.
GetDocuments(c, u) ==
    /\ NextRequest(c)
    /\ budget.reads > 0
    /\ budget' = [budget EXCEPT !.reads = @ - 1]
    /\ requests' = [requests EXCEPT ![c] =
                       readCall("getDocuments", u, getUserDocuments(u))]
    /\ UNCHANGED <<documents, state, now, pc, query, messages, iterations,
                   finalAnswer, returned, calls, own, turns, probe, ragAgent,
                   modelConstructs, dbAvailable, dbDocuments, dbRagQueries,
                   visualizerVars>>

\* getQueries: the caller's query rows.
GetQueries(c, u) ==
    /\ NextRequest(c)
    /\ budget.reads > 0
    /\ budget' = [budget EXCEPT !.reads = @ - 1]
    /\ requests' = [requests EXCEPT ![c] =
                       readCall("getQueries", u,
                                SelectSeq(dbRagQueries,
                                          LAMBDA row : row.userId = u))]
    /\ UNCHANGED <<documents, state, now, pc, query, messages, iterations,
                   finalAnswer, returned, calls, own, turns, probe, ragAgent,
                   modelConstructs, dbAvailable, dbDocuments, dbRagQueries,
                   visualizerVars>>

\* getQuery: the query row with the given id, of whichever user; ids are
\* the positions of the rows.
GetQuery(c, u, id) ==
    /\ NextRequest(c)
    /\ budget.reads > 0
    /\ budget' = [budget EXCEPT !.reads = @ - 1]
    /\ requests' = [requests EXCEPT ![c] =
                       readCall("getQuery", u,
                                IF id \in 1..Len(dbRagQueries)
                                THEN <<dbRagQueries[id]>> ELSE <<>>)]
    /\ UNCHANGED <<documents, state, now, pc, query, messages, iterations,
                   finalAnswer, returned, calls, own, turns, probe, ragAgent,
                   modelConstructs, dbAvailable, dbDocuments, dbRagQueries,
                   visualizerVars>>

NextRouter ==
    \/ \E c \in RequestIds, u \in Users, d \in UploadInputs : UploadDocument(c, u, d)
    \/ \E c \in RequestIds : ReadUserDocuments(c)
    \/ \E c \in RequestIds : InstallDocuments(c)
    \/ \E c \in RequestIds, e \in QueryEndpoints, u \in Users, q \in {QueryCats} :
           QueryEndpoint(c, e, u, q)
    \/ \E c \in RequestIds : InvokeAgent(c)
    \/ \E r \in Runs, content \in Replies : ModelReplies(r, content)
    \/ \E r \in Runs, err \in ModelErrors : ModelFails(r, err)
    \/ \E c \in RequestIds : Respond(c)
    \/ \E c \in RequestIds, u \in Users : GetDocuments(c, u)
    \/ \E c \in RequestIds, u \in Users : GetQueries(c, u)
    \/ \E c \in RequestIds, u \in Users, id \in {1} : GetQuery(c, u, id)

SpecRouter == InitRouter /\ [][NextRouter]_vars

----------------------------------------------------------------------------
\* The visualizer page: the question box, the query button, the step panel
\* with its Previous and Next buttons and its timeline, and the auto-advance
\* effect. A state change and the effect that follows its render are one
\* action.

\* The longest step list a response holds.
MaxSteps == 4

\* The type of the i-th step of a response.
StepTypeAt(i) ==
    IF i % 3 = 1 THEN "thought" ELSE IF i % 3 = 2 THEN "action" ELSE "observation"

StepLists ==
    {[i \in 1..n |-> StepTypeAt(i)] : n \in 0..MaxSteps}

\* What the awaited queriesApi.process(query) may settle with: a response
\* with success and steps, a response without success, or a value that makes
\* the handler throw.
QueryResponses ==
    {[kind |-> "success", steps |-> st, result |-> <<"o", "k">>] : st \in StepLists}
    \cup {[kind |-> "failure", steps |-> <<>>, result |-> <<>>],
          [kind |-> "thrown", steps |-> <<>>, result |-> <<>>]}

\* The texts typed into the question box.
QueryTexts == {<<>>, <<" ">>, QueryCats}

\* An effect that also keeps a timeout pending on the last step.
autoAdvanceArmsOnLastStep(isLoading, list, index) ==
    ~isLoading /\ Len(list) > 0 /\ index < Len(list)

\* The auto-advance effect: whether it leaves a timeout pending after a
\* render with these values.
autoAdvanceArms(isLoading, list, index) ==
    ~isLoading /\ Len(list) > 0 /\ index < Len(list) - 1

\* A timeout callback that skips a step.
advancedTwice(prev) ==
    prev + 2

\* (prev) => prev + 1
advanced(prev) ==
    prev + 1

\* Math.max(0, currentStepIndex - 1)
previousIndex(index) ==
    IF index - 1 > 0 THEN index - 1 ELSE 0

\* Math.min(steps.length - 1, currentStepIndex + 1)
nextIndex(list, index) ==
    IF index + 1 < Len(list) - 1 THEN index + 1 ELSE Len(list) - 1

InitVisualizer ==
    /\ documents = <<>>
    /\ budget = NoWorkload
    /\ InitRuns
    /\ probe = NoProbe
    /\ RouterIdle
    /\ VisualizerMounted

\* useBackendStatus: a health check settles.
CheckHealth(healthy) ==
    /\ isHealthy' = healthy
    /\ lastEvent' = "health"
    /\ UNCHANGED <<agentVars, probe, routerVars, displayedSteps, displayedResult,
                   loading, currentStepIndex, uiError, timer, inFlight, queryInput>>

\* The question box changes; it is disabled while the backend is not
\* healthy.
SetQuery(text) ==
    /\ isHealthy
    /\ queryInput' = text
    /\ lastEvent' = "typing"
    /\ UNCHANGED <<agentVars, probe, routerVars, displayedSteps, displayedResult,
                   loading, currentStepIndex, uiError, timer, inFlight, isHealthy>>

\* A click on the query button, which is disabled while loading or while
\* the backend is not healthy: handleProcessQuery up to its await.
HandleProcessQuery ==
    /\ ~loading
    /\ isHealthy
    /\ IF ~isNonBlank(queryInput)
       THEN /\ uiError' = TRUE
            /\ lastEvent' = "blank"
            /\ UNCHANGED <<displayedSteps, displayedResult, loading,
                           currentStepIndex, timer, inFlight>>
       ELSE /\ loading' = TRUE
            /\ displayedSteps' = <<>>
            /\ displayedResult' = <<>>
            /\ currentStepIndex' = 0
            /\ uiError' = FALSE
            /\ inFlight' = inFlight + 1
            /\ timer' = autoAdvanceArms(TRUE, <<>>, 0)
            /\ lastEvent' = "submit"
    /\ UNCHANGED <<agentVars, probe, routerVars, isHealthy, queryInput>>

\* handleProcessQuery from the await on: the response is shown, or the error
\* is, and loading is cleared.
ProcessSettles(response) ==
    /\ inFlight > 0
    /\ inFlight' = inFlight - 1
    /\ loading' = FALSE
    /\ IF response.kind = "success"
       THEN /\ displayedSteps' = response.steps
            /\ displayedResult' = response.result
            /\ currentStepIndex' = 0
            /\ UNCHANGED uiError
       ELSE /\ uiError' = TRUE
            /\ UNCHANGED <<displayedSteps, displayedResult, currentStepIndex>>
    /\ timer' = autoAdvanceArms(FALSE, displayedSteps', currentStepIndex')
    /\ lastEvent' = "settled"
    /\ UNCHANGED <<agentVars, probe, routerVars, isHealthy, queryInput>>

\* A click on Previous, which is rendered with the step panel and disabled on
\* the first step.
Previous ==
    /\ Len(displayedSteps) > 0
    /\ currentStepIndex # 0
    /\ currentStepIndex' = previousIndex(currentStepIndex)
    /\ timer' = autoAdvanceArms(loading, displayedSteps, currentStepIndex')
    /\ lastEvent' = "previous"
    /\ UNCHANGED <<agentVars, probe, routerVars, displayedSteps, displayedResult,
                   loading, uiError, inFlight, isHealthy, queryInput>>

\* A click on Next, which is rendered with the step panel and disabled on the
\* last step.
NextStep ==
    /\ Len(displayedSteps) > 0
    /\ currentStepIndex # Len(displayedSteps) - 1
    /\ currentStepIndex' = nextIndex(displayedSteps, currentStepIndex)
    /\ timer' = autoAdvanceArms(loading, displayedSteps, currentStepIndex')
    /\ lastEvent' = "next"
    /\ UNCHANGED <<agentVars, probe, routerVars, displayedSteps, displayedResult,
                   loading, uiError, inFlight, isHealthy, queryInput>>

\* A click on the timeline button of step idx.
TimelineClick(idx) ==
    /\ idx \in 0..(Len(displayedSteps) - 1)
    /\ currentStepIndex' = idx
    /\ timer' = autoAdvanceArms(loading, displayedSteps, idx)
    /\ lastEvent' = "timeline"
    /\ UNCHANGED <<agentVars, probe, routerVars, displayedSteps, displayedResult,
                   loading, uiError, inFlight, isHealthy, queryInput>>

\* The pending timeout fires.
TimerFires ==
    /\ timer
    /\ currentStepIndex' = advanced(currentStepIndex)
    /\ timer' = autoAdvanceArms(loading, displayedSteps, currentStepIndex')
    /\ lastEvent' = "timer"
    /\ UNCHANGED <<agentVars, probe, routerVars, displayedSteps, displayedResult,
                   loading, uiError, inFlight, isHealthy, queryInput>>

NextVisualizer ==
    \/ \E healthy \in BOOLEAN : CheckHealth(healthy)
    \/ \E text \in QueryTexts : SetQuery(text)
    \/ HandleProcessQuery
    \/ \E response \in QueryResponses : ProcessSettles(response)
    \/ Previous
    \/ NextStep
    \/ \E idx \in 0..(MaxSteps - 1) : TimelineClick(idx)
    \/ TimerFires

SpecVisualizer == InitVisualizer /\ [][NextVisualizer]_vars

\* The timeout the effect has set fires unless the effect's cleanup clears
\* it first.
SpecVisualizerLive ==
    /\ InitVisualizer
    /\ [][NextVisualizer]_vars
    /\ WF_vars(TimerFires)

----------------------------------------------------------------------------
\* The reasons for which a run that has returned stopped, read off its last
\* turn.
MarkerDetected(r) ==
    /\ Last(turns[r]).event.ok
    /\ HasMarker(Last(turns[r]).event.value)

BoundReached(r) ==
    /\ Last(turns[r]).event.ok
    /\ Last(turns[r]).iteration >= maxIterations

NoKeywordMatched(r) ==
    /\ Last(turns[r]).event.ok
    /\ Last(turns[r]).iteration < maxIterations
    /\ ~HasMarker(Last(turns[r]).event.value)
    /\ ~HasToolKeyword(Last(turns[r]).event.value)

ModelCallFailed(r) ==
    ~Last(turns[r]).event.ok

\* How many of the four reasons hold of run r.
ReasonCount(r) ==
    (IF MarkerDetected(r) THEN 1 ELSE 0) + (IF BoundReached(r) THEN 1 ELSE 0)
    + (IF NoKeywordMatched(r) THEN 1 ELSE 0) + (IF ModelCallFailed(r) THEN 1 ELSE 0)

\* C21. Original statement, its safety half: a run that has returned stopped
\* for exactly one of the four reasons.
C21_ExactlyOneReason ==
    \A r \in Runs :
        pc[r] = "done" => (turns[r] # <<>> /\ ReasonCount(r) = 1)

\* C21, amended: when every model call settles, every processQuery run
\* returns, and a run that has returned stopped for at least one of the four
\* reasons; a failed model call and an unmatched reply each exclude the other
\* three, while a final-answer marker may be detected in the very turn that
\* reaches the bound.
C21_ReturnsForAReason ==
    /\ \A r \in Runs : (pc[r] = "awaiting") ~> (pc[r] = "done")
    /\ [](\A r \in Runs :
             pc[r] = "done" =>
                 /\ turns[r] # <<>>
                 /\ ReasonCount(r) >= 1
                 /\ (ModelCallFailed(r) \/ NoKeywordMatched(r)) => ReasonCount(r) = 1
                 /\ ReasonCount(r) = 2 => (MarkerDetected(r) /\ BoundReached(r)))

\* A run that returned in its fifth turn on a reply with a final-answer
\* marker.
C21_Witness ==
    \E r \in Runs :
        /\ pc[r] = "done"
        /\ Len(turns[r]) = maxIterations
        /\ MarkerDetected(r)
        /\ BoundReached(r)

----------------------------------------------------------------------------
\* The text of the message that reports a tool call's output to the model.
ToolResultText(call) ==
    IF call.tool = "retrieveDocuments"
    THEN <<"T","o","o","l"," ","r","e","s","u","l","t"," ","f","r","o","m"," ",
           "d","o","c","u","m","e","n","t"," ","r","e","t","r","i","e","v","a","l",
           ":","\n">> \o call.result
         \o <<"\n","\n","C","o","n","t","i","n","u","e"," ","y","o","u","r"," ",
              "a","n","a","l","y","s","i","s",".">>
    ELSE <<"T","o","o","l"," ","r","e","s","u","l","t"," ","f","r","o","m"," ",
           "a","n","a","l","y","s","i","s",":","\n">> \o call.result
         \o <<"\n","\n","P","r","o","v","i","d","e"," ","y","o","u","r"," ",
              "f","i","n","a","l"," ","a","n","s","w","e","r"," ","b","a","s","e","d",
              " ","o","n"," ","t","h","i","s"," ","a","n","a","l","y","s","i","s",".">>

\* The messages a turn adds: the reply and the tool result when it ran a
\* tool, nothing otherwise.
GrowthOf(turn) ==
    IF turn.tools = <<>>
    THEN <<>>
    ELSE <<HumanMessage(turn.event.value),
           HumanMessage(ToolResultText(turn.tools[1]))>>

\* The message list of a run for query q after the turns ts.
RECURSIVE MessagesAfter(_, _)
MessagesAfter(q, ts) ==
    IF ts = <<>>
    THEN <<SystemMessage(systemPrompt), HumanMessage(q)>>
    ELSE MessagesAfter(q, SubSeq(ts, 1, Len(ts) - 1)) \o GrowthOf(Last(ts))

\* C23. The message list of a run starts as [system instruction, user query]
\* and grows by the reply and the tool result for every turn that ran a tool
\* and by nothing for any other turn; the k-th model call of a run receives
\* 2 + 2*(k-1) messages; and no step changes or removes a message already in
\* the list.
C23_MessagesGrowByToolTurns ==
    /\ [](\A r \in Runs :
             pc[r] # "idle" =>
                 /\ messages[r] = MessagesAfter(query[r], turns[r])
                 /\ \A i \in 1..Len(turns[r]) : Len(turns[r][i].tools) <= 1
                 /\ pc[r] = "awaiting" =>
                        Len(messages[r]) = 2 + 2 * (calls[r] - 1))
    /\ [][\A r \in Runs :
             pc[r] # "idle" => IsPrefix(messages[r], messages'[r])]_vars

\* A run suspended on its third model call, which received six messages.
C23_Witness ==
    \E r \in Runs :
        /\ pc[r] = "awaiting"
        /\ calls[r] = 3
        /\ Len(turns[r]) = 2
        /\ Len(messages[r]) = 6
        /\ turns[r][1].tools # <<>>
        /\ turns[r][2].tools # <<>>

----------------------------------------------------------------------------
\* What a search of the map docs for a phrase reports.
SearchReport(docs, phrase) ==
    IF Len(Selected(docs, phrase)) = 0
    THEN NoDocsSentinel
    ELSE Delimited(Selected(docs, phrase))

\* Turn i of run r made a retrieval.
Retrieved(r, i) ==
    /\ i \in 1..Len(turns[r])
    /\ Len(turns[r][i].tools) > 0
    /\ turns[r][i].tools[1].tool = "retrieveDocuments"

\* C24. A turn that makes a retrieval searches the document map installed at
\* the moment of that turn, so a retrieval made after updateDocuments has
\* replaced the map reports from the new map; and updateDocuments leaves the
\* step log, observation steps included, as it was.
C24_RetrievalSeesInstalledMap ==
    /\ [][\A r \in Runs :
             (/\ Len(turns'[r]) = Len(turns[r]) + 1
              /\ Len(Last(turns'[r]).tools) > 0
              /\ Last(turns'[r]).tools[1].tool = "retrieveDocuments") =>
                 /\ documents' = documents
                 /\ Last(turns'[r]).tools[1].result =
                        SearchReport(documents, Last(turns'[r]).tools[1].arg)
                 /\ Last(state'.steps) =
                        [type |-> "observation",
                         content |-> SearchReport(documents,
                                                  Last(turns'[r]).tools[1].arg),
                         timestamp |-> now']]_vars
    /\ [][documents' # documents =>
             (state' = state /\ own' = own /\ turns' = turns
              /\ messages' = messages)]_vars

\* A run whose first retrieval found nothing in the empty map and whose
\* second retrieval of the same phrase, made after updateDocuments installed
\* a map, reports a document; the first observation is still in the log.
C24_Witness ==
    \E r \in Runs :
        /\ Alone(r)
        /\ Retrieved(r, 1)
        /\ Retrieved(r, 2)
        /\ turns[r][1].tools[1].arg = turns[r][2].tools[1].arg
        /\ turns[r][1].tools[1].result = NoDocsSentinel
        /\ turns[r][2].tools[1].result # NoDocsSentinel
        /\ documents # <<>>
        /\ state.steps[4] = [type |-> "observation", content |-> NoDocsSentinel,
                             timestamp |-> 1]

----------------------------------------------------------------------------
\* Step i of a log is a result step, is the last step, and comes right after
\* a thought step with the same content.
ResultClosesLog(log, i) ==
    /\ i = Len(log)
    /\ i > 1
    /\ log[i - 1].type = "thought"
    /\ log[i - 1].content = log[i].content

\* C25. In the step log of a processQuery run that no other run overlaps
\* there is at most one result step, a result step is the last step of the
\* log, and the step before it is a thought step with the same content. The
\* log is this.state.steps while the run is under way and the steps it
\* returned once it is over.
C25_ResultStepClosesLog ==
    \A r \in Runs :
        (Alone(r) /\ pc[r] # "idle") =>
            /\ \A i \in 1..Len(state.steps) :
                   state.steps[i].type = "result" => ResultClosesLog(state.steps, i)
            /\ Cardinality({i \in 1..Len(state.steps) :
                                state.steps[i].type = "result"}) <= 1
            /\ pc[r] = "done" => returned[r].steps = state.steps

\* A run on its own that returned, after a tool turn, a log closed by a
\* result step.
C25_Witness ==
    \E r \in Runs :
        /\ Alone(r)
        /\ pc[r] = "done"
        /\ Len(turns[r]) >= 2
        /\ Len(returned[r].steps) >= 6
        /\ Last(returned[r].steps).type = "result"
        /\ Last(returned[r].steps).content # <<>>

----------------------------------------------------------------------------
\* Step i of a log is an action step between a thought step and an
\* observation step.
ActionIsFramed(log, i) ==
    /\ i > 1
    /\ i < Len(log)
    /\ log[i - 1].type = "thought"
    /\ log[i + 1].type = "observation"

\* C26. In the step log of a processQuery run that no other run overlaps,
\* every action step comes right after a thought step and right before an
\* observation step, every observation step comes right after an action
\* step, and the first step is the thought: Analyzing query: "<query>".
C26_ThoughtActionObservation ==
    \A r \in Runs :
        (Alone(r) /\ pc[r] # "idle") =>
            /\ Len(state.steps) >= 1
            /\ <<state.steps[1].type, state.steps[1].content>> =
                   <<"thought",
                     <<"A","n","a","l","y","z","i","n","g"," ","q","u","e","r","y",
                       ":"," ","\"">> \o query[r] \o <<"\"">>>>
            /\ \A i \in 1..Len(state.steps) :
                   /\ state.steps[i].type = "action" =>
                          ActionIsFramed(state.steps, i)
                   /\ state.steps[i].type = "observation" =>
                          (i > 1 /\ state.steps[i - 1].type = "action")
            /\ pc[r] = "done" => Unstamped(returned[r].steps) = Unstamped(state.steps)

\* A run on its own whose log holds a retrieval and an analysis, each with
\* its action step and its observation step.
C26_Witness ==
    \E r \in Runs :
        /\ Alone(r)
        /\ pc[r] # "idle"
        /\ \E i, j \in 1..Len(turns[r]) :
               /\ ToolsCalled(r, i) = <<"retrieveDocuments">>
               /\ ToolsCalled(r, j) = <<"analyzeText">>
        /\ Cardinality({i \in 1..Len(state.steps) :
                            state.steps[i].type = "action"}) >= 2
        /\ Cardinality({i \in 1..Len(state.steps) :
                            state.steps[i].type = "observation"}) >= 2

----------------------------------------------------------------------------
\* Request c is a call of a query endpoint that is over.
QueryCallOver(c) ==
    /\ requests[c].endpoint \in QueryEndpoints
    /\ requests[c].at = "done"

\* C22. While the agent cannot be constructed, a call of a query endpoint
\* that gets as far as the agent never starts a run and never answers with a
\* result or with steps: the processQuery endpoint answers success = false
\* with a non-empty error message, and the streamQuery endpoint rejects. (A
\* call whose query record could not be saved rejects before it reaches the
\* agent.)
C22_InitFailureSurfaced ==
    ~modelConstructs =>
        /\ ~ragAgent
        /\ \A r \in Runs : pc[r] = "idle"
        /\ \A c \in RequestIds :
               /\ requests[c].at # "running"
               /\ QueryCallOver(c) =>
                      /\ requests[c].response.success # "true"
                      /\ requests[c].response.result = <<>>
                      /\ requests[c].response.steps = <<>>
                      /\ (dbAvailable /\ requests[c].endpoint = "processQuery") =>
                             /\ requests[c].response.kind = "returned"
                             /\ requests[c].response.success = "false"
                             /\ Len(requests[c].response.error) > 0
                      /\ (dbAvailable /\ requests[c].endpoint = "streamQuery") =>
                             requests[c].response.kind = "thrown"
                      /\ ~dbAvailable => requests[c].response.kind = "thrown"

\* With a database and an agent that cannot be constructed, a processQuery
\* call has answered success = false and a streamQuery call has rejected.
C22_Witness ==
    /\ ~modelConstructs
    /\ dbAvailable
    /\ \E c, d \in RequestIds :
           /\ QueryCallOver(c)
           /\ QueryCallOver(d)
           /\ requests[c].endpoint = "processQuery"
           /\ requests[c].response.success = "false"
           /\ requests[c].response.error = UnknownError
           /\ requests[d].endpoint = "streamQuery"
           /\ requests[d].response.kind = "thrown"
           /\ Len(dbRagQueries) = 2

----------------------------------------------------------------------------
\* The rows user u has stored, in insertion order.
StoredRows(u) ==
    SelectSeq(dbDocuments, LAMBDA row : row.userId = u)

\* The positions of the rows that bring a title for the first time.
FirstOfTitle(rows) ==
    {i \in 1..Len(rows) : \A j \in 1..(i - 1) : rows[j].title # rows[i].title}

\* The k-th smallest member of a set of positions.
KthOf(positions, k) ==
    CHOOSE i \in positions : Cardinality({j \in positions : j <= i}) = k

\* The content of the last row with the title of row i.
LatestContent(rows, i) ==
    rows[CHOOSE j \in 1..Len(rows) :
             /\ rows[j].title = rows[i].title
             /\ \A h \in (j + 1)..Len(rows) : rows[h].title # rows[i].title].content

\* Title to content for the rows, a later row with the same title
\* overriding an earlier one.
TitleToContent(rows) ==
    [k \in 1..Cardinality(FirstOfTitle(rows)) |->
        [title |-> rows[KthOf(FirstOfTitle(rows), k)].title,
         content |-> LatestContent(rows, KthOf(FirstOfTitle(rows), k))]]

\* This step completes the uploadDocument call c.
UploadCompletes(c) ==
    /\ requests[c].endpoint = "uploadDocument"
    /\ requests[c].at = "read"
    /\ requests'[c].at = "done"
    /\ requests'[c].response.kind = "returned"

----------------------------------------------------------------------------
\* The query endpoint calls whose record has been saved.
SavedQueryCalls ==
    {c \in RequestIds :
        requests[c].endpoint \in QueryEndpoints /\ requests[c].at # "idle"
        /\ dbAvailable}

----------------------------------------------------------------------------
\* C29. In the visualizer, whatever the sequence of Previous, Next, timeline
\* clicks, timer firings and query submissions, whenever the displayed step
\* list is non-empty the current step index is at least 0 and at most
\* steps.length - 1; and a query submission resets the index to 0.
C29_IndexWithinSteps ==
    /\ [](Len(displayedSteps) > 0 =>
              (0 <= currentStepIndex /\ currentStepIndex <= Len(displayedSteps) - 1))
    /\ [][lastEvent' = "submit" => currentStepIndex' = 0]_vars

\* A click on Next has moved the index onto the last of the displayed steps
\* of the longest list.
C29_Witness ==
    /\ lastEvent = "next"
    /\ Len(displayedSteps) = MaxSteps
    /\ currentStepIndex = Len(displayedSteps) - 1

----------------------------------------------------------------------------
\* The events by which the user submits a query or navigates.
UserEvents == {"submit", "previous", "next", "timeline"}

\* C30. The auto-advance timeout is pending exactly when no query is
\* loading, steps are displayed and the index is before the last step: so
\* nothing advances while a query is loading or once the last step is
\* reached. When it fires it moves the index forward by one step, within the
\* list. And unless the user keeps submitting or navigating, the index ends
\* up resting on the last step of the displayed list.
C30_AutoAdvanceToLastStep ==
    /\ [](timer <=> (/\ ~loading
                     /\ Len(displayedSteps) > 0
                     /\ currentStepIndex < Len(displayedSteps) - 1))
    /\ [][lastEvent' = "timer" =>
             /\ timer
             /\ ~loading
             /\ currentStepIndex' = currentStepIndex + 1
             /\ currentStepIndex' <= Len(displayedSteps) - 1
             /\ displayedSteps' = displayedSteps]_vars
    /\ \/ []<><<lastEvent' \in UserEvents>>_vars
       \/ <>[](Len(displayedSteps) > 0 =>
                  (~loading /\ currentStepIndex = Len(displayedSteps) - 1))

\* The timeout has just moved the index onto the last of four displayed
\* steps, and no timeout is pending any more.
C30_Witness ==
    /\ lastEvent = "timer"
    /\ Len(displayedSteps) = MaxSteps
    /\ currentStepIndex = MaxSteps - 1
    /\ ~timer
    /\ ~loading

====
